---- MODULE Spec2Model ----
(***************************************************************************)
(* The lot-accounting engine of src/src/lib/holdings.ts: computeHoldings   *)
(* (sort, replay loop, filter) with handleBuy, handleSell and handleSplit, *)
(* and computeInvestedAmount.                                              *)
(*                                                                         *)
(* Numbers.  A JavaScript number is modelled as a pair <<n, d>>:           *)
(*   d > 0   the rational n/d in lowest terms,                             *)
(*   <<0,0>> NaN,  <<1,0>> +Infinity,  <<-1,0>> -Infinity,                 *)
(* with the IEEE-754 rules for the special values (x/0, 0*Infinity,        *)
(* Infinity-Infinity, comparisons with NaN).  Finite arithmetic is exact:  *)
(* binary64 rounding and the sign of zero are not modelled.                *)
(* null is the empty tuple.                                                *)
(***************************************************************************)
EXTENDS Integers, Sequences, FiniteSets, TLC

\* Longest transaction list handed to computeHoldings.
MaxTx == 3

VARIABLES
  transactions,  \* the caller's transaction list (argument)
  assets,        \* the caller's asset lookup (argument)
  sortedTx,      \* the sorted copy
  i,             \* 1-based index of the next element of sortedTx
  positions,     \* the positions Map, as the sequence of its values in insertion order
  last,          \* the locals of the handler run by the latest loop iteration
  holdings,      \* the returned list
  pc,            \* computeHoldings: "start" | "loop" | "done";
                 \* computeInvestedAmount: "invest" | "invested"
  invested,      \* the running total of computeInvestedAmount
  \* pages/Investments.tsx
  selectedAccountId, \* the account filter of the page
  loads,             \* the loadData calls started so far, oldest first
  pageState,         \* transactions, enrichedHoldings, loading, fetchingPrices
  \* Splitwise OAuth (startSplitwiseAuth, handleSplitwiseCallback)
  sessionStorage,    \* the item splitwise_oauth_state, NoItem when absent
  tokens,            \* the stored tokens, as the codes they were got for
  callbacks,         \* the handleSplitwiseCallback invocations, oldest first
  generated,         \* the values generateState has returned, oldest first
  \* tokenStorage.ts: saveEquityHoldings, saveMFHoldings
  toSave,            \* the holdings argument
  save,              \* the locals of the call and the rows written
  \* mergeMonthlyCategoryTotals
  heap,              \* the objects the call can reach, by reference
  localTotals,       \* argument: references to the local totals
  splitwiseExpenses, \* argument
  localCategories,   \* argument
  merged,            \* the Map: <<key, reference>> in insertion order
  mergePc,           \* "locals" | "splitwise" | "returned"
  mergeK,            \* 1-based index of the next element of the running loop
  mergedTotals       \* the returned array, as references

holdingsVars ==
  <<transactions, assets, sortedTx, i, positions, last, holdings, pc, invested>>

pageVars == <<selectedAccountId, loads, pageState>>

authVars == <<sessionStorage, tokens, callbacks, generated>>

saveVars == <<toSave, save>>

mergeVars ==
  <<heap, localTotals, splitwiseExpenses, localCategories, merged, mergePc,
    mergeK, mergedTotals>>

vars == <<holdingsVars, pageVars, authVars, saveVars, mergeVars>>

\* the variables outside holdings.ts
elsewhere == <<pageVars, authVars, saveVars, mergeVars>>

\* sessionStorage.getItem returns null for an absent item
NoItem == "(null)"

\* the page before its first effect (Investments.tsx:41-52)
PageIdle ==
  /\ selectedAccountId = "undefined"
  /\ loads = <<>>
  /\ pageState = [transactions |-> 0, enrichedHoldings |-> 0,
                  loading |-> TRUE, fetchingPrices |-> FALSE]

\* no authorization started
AuthIdle ==
  /\ sessionStorage = NoItem
  /\ tokens = <<>>
  /\ callbacks = <<>>
  /\ generated = <<>>

\* no save called
SaveIdle ==
  /\ toSave = <<>>
  /\ save = [pc |-> "idle"]

\* no merge called
MergeIdle ==
  /\ heap = <<>>
  /\ localTotals = <<>>
  /\ splitwiseExpenses = <<>>
  /\ localCategories = <<>>
  /\ merged = <<>>
  /\ mergePc = "idle"
  /\ mergeK = 0
  /\ mergedTotals = <<>>

ElsewhereIdle == PageIdle /\ AuthIdle /\ SaveIdle /\ MergeIdle

----------------------------------------------------------------------------
(* Numbers *)

Null == <<>>
NaN == <<0, 0>>
PosInf == <<1, 0>>
NegInf == <<-1, 0>>
Zero == <<0, 1>>
One == <<1, 1>>

Abs(x) == IF x < 0 THEN -x ELSE x

Sgn(x) == IF x < 0 THEN -1 ELSE IF x > 0 THEN 1 ELSE 0

RECURSIVE GCD(_, _)
GCD(a, b) == IF b = 0 THEN a ELSE GCD(b, a % b)

\* n/d (d # 0) in lowest terms with a positive denominator
Norm(n, d) ==
  LET g == GCD(Abs(n), Abs(d))
  IN  <<Sgn(d) * (n \div g), Abs(d) \div g>>

Num(n) == <<n, 1>>

IsNaN(a) == a = NaN
IsInf(a) == a = PosInf \/ a = NegInf
IsFinite(a) == a[2] > 0

Neg(a) == <<-a[1], a[2]>>

Add(a, b) ==
  IF IsNaN(a) \/ IsNaN(b) THEN NaN
  ELSE IF IsInf(a) /\ IsInf(b) THEN (IF a = b THEN a ELSE NaN)
  ELSE IF IsInf(a) THEN a
  ELSE IF IsInf(b) THEN b
  ELSE Norm(a[1] * b[2] + b[1] * a[2], a[2] * b[2])

Sub(a, b) == Add(a, Neg(b))

Mul(a, b) ==
  IF IsNaN(a) \/ IsNaN(b) THEN NaN
  ELSE IF IsInf(a) \/ IsInf(b)
       THEN (IF a[1] = 0 \/ b[1] = 0 THEN NaN ELSE <<Sgn(a[1]) * Sgn(b[1]), 0>>)
  ELSE Norm(a[1] * b[1], a[2] * b[2])

Div(a, b) ==
  IF IsNaN(a) \/ IsNaN(b) THEN NaN
  ELSE IF IsInf(a) /\ IsInf(b) THEN NaN
  ELSE IF IsInf(a) THEN (IF b[1] < 0 THEN Neg(a) ELSE a)
  ELSE IF IsInf(b) THEN Zero
  ELSE IF b[1] = 0 THEN (IF a[1] = 0 THEN NaN ELSE <<Sgn(a[1]), 0>>)
  ELSE Norm(a[1] * b[2], a[2] * b[1])

\* a < b; false when either side is NaN
Lt(a, b) ==
  IF IsNaN(a) \/ IsNaN(b) \/ a = b THEN FALSE
  ELSE IF a = NegInf \/ b = PosInf THEN TRUE
  ELSE IF a = PosInf \/ b = NegInf THEN FALSE
  ELSE a[1] * b[2] < b[1] * a[2]

Gt(a, b) == Lt(b, a)

Le(a, b) == ~IsNaN(a) /\ ~IsNaN(b) /\ ~Lt(b, a)

\* JavaScript's  v || dflt  on a number-or-null: null, 0 and NaN are falsy
OrElse(v, dflt) == IF v = Null \/ v = Zero \/ v = NaN THEN dflt ELSE v

----------------------------------------------------------------------------
(* Data *)

\* Transaction (holdings.ts:1-10); trade_date and created_at are held as the
\* epoch seconds their strings denote.
Tx(id, type, asset_id, quantity, price, fee, trade_date, created_at) ==
  [id |-> id, type |-> type, asset_id |-> asset_id, quantity |-> quantity,
   price |-> price, fee |-> fee, trade_date |-> trade_date,
   created_at |-> created_at]

\* Lot (holdings.ts:12-17)
Lot(quantity, cost_per_unit, purchase_date, transaction_id) ==
  [quantity |-> quantity, cost_per_unit |-> cost_per_unit,
   purchase_date |-> purchase_date, transaction_id |-> transaction_id]

\* The fresh AssetPosition of holdings.ts:65-74
NewPosition(asset_id, asset) ==
  [asset_id |-> asset_id, symbol |-> asset.symbol, name |-> asset.name,
   quantity |-> Zero, avg_cost |-> Zero, cost_basis |-> Zero,
   realized_pnl |-> Zero, lots |-> <<>>]

\* Holding (holdings.ts:97-105): a position without its lots
ToHolding(p) ==
  [asset_id |-> p.asset_id, symbol |-> p.symbol, name |-> p.name,
   quantity |-> p.quantity, avg_cost |-> p.avg_cost,
   cost_basis |-> p.cost_basis, realized_pnl |-> p.realized_pnl]

----------------------------------------------------------------------------
(* The sort of holdings.ts:50-54 *)

\* new Date(s).getTime(): milliseconds of the instant s denotes
GetTime(s) == s * 1000

\* mutant: created_at does not break the tie of equal trade_dates
CompareDateOnly(a, b) == GetTime(a.trade_date) - GetTime(b.trade_date)

\* the comparator: negative, zero or positive
Compare(a, b) ==
  LET dateCompare == GetTime(a.trade_date) - GetTime(b.trade_date)
  IN  IF dateCompare # 0 THEN dateCompare
      ELSE GetTime(a.created_at) - GetTime(b.created_at)

\* x put into the sorted sequence s behind every element that does not
\* compare greater than it
RECURSIVE InsertSorted(_, _)
InsertSorted(s, x) ==
  IF s = <<>> THEN <<x>>
  ELSE IF Compare(s[Len(s)], x) <= 0 THEN Append(s, x)
  ELSE Append(InsertSorted(SubSeq(s, 1, Len(s) - 1), x), s[Len(s)])

\* mutant: the transactions are replayed in the order given
SortTxNone(txs) == txs

\* Array.prototype.sort is stable: elements that compare equal keep the
\* order they have in the input
RECURSIVE SortTx(_)
SortTx(txs) ==
  IF txs = <<>> THEN <<>>
  ELSE InsertSorted(SortTx(SubSeq(txs, 1, Len(txs) - 1)), txs[Len(txs)])

\* mutant: the caller's array is sorted in place
SortedInPlace(txs) == [input |-> SortTx(txs), sorted |-> SortTx(txs)]

\* [...transactions].sort(...) (holdings.ts:50-54): the sorted array is a
\* copy, and the array the caller passed stays as it was
SortedCopy(txs) == [input |-> txs, sorted |-> SortTx(txs)]

----------------------------------------------------------------------------
(* The handlers *)

\* mutant: the fee does not enter the cost per unit
CostPerUnitNoFee(tx) == OrElse(tx.price, Zero)

\* handleBuy's costPerUnit (holdings.ts:112-117)
CostPerUnit(tx) ==
  LET quantity == OrElse(tx.quantity, Zero)
      price == OrElse(tx.price, Zero)
      fee == OrElse(tx.fee, Zero)
  IN  Add(price, Div(fee, quantity))

\* mutant: the fee of a buy stays outside the cost_basis
HandleBuyFeeOutsideBasis(position, tx) ==
  LET quantity == OrElse(tx.quantity, Zero)
      costPerUnit == CostPerUnit(tx)
      newQuantity == Add(position.quantity, quantity)
      newCostBasis == Add(position.cost_basis,
                          Mul(quantity, OrElse(tx.price, Zero)))
  IN  [position EXCEPT
         !.lots = Append(@, Lot(quantity, costPerUnit, tx.trade_date, tx.id)),
         !.quantity = newQuantity,
         !.cost_basis = newCostBasis,
         !.avg_cost = Div(newCostBasis, newQuantity)]

\* handleBuy (holdings.ts:111-131)
HandleBuy(position, tx) ==
  LET quantity == OrElse(tx.quantity, Zero)
      costPerUnit == CostPerUnit(tx)
      newQuantity == Add(position.quantity, quantity)
      newCostBasis == Add(position.cost_basis, Mul(quantity, costPerUnit))
  IN  [position EXCEPT
         !.lots = Append(@, Lot(quantity, costPerUnit, tx.trade_date, tx.id)),
         !.quantity = newQuantity,
         !.cost_basis = newCostBasis,
         !.avg_cost = Div(newCostBasis, newQuantity)]

\* mutant: the front lot counts as consumed whole only when the sell needs
\* strictly more than it holds
ConsumesWholeLotStrict(lot, remainingToSell) == Lt(lot.quantity, remainingToSell)

\* whether the front lot is consumed whole (holdings.ts:147)
ConsumesWholeLot(lot, remainingToSell) == Le(lot.quantity, remainingToSell)

\* one more pass of the while loop before the state it ended in
OneMore(end) == [end EXCEPT !.iterations = @ + 1]

\* mutant: a partly consumed lot is charged at its whole cost
RECURSIVE SellLoopWholeCost(_, _, _)
SellLoopWholeCost(lots, remainingToSell, totalCost) ==
  IF Gt(remainingToSell, Zero) /\ Len(lots) > 0
  THEN LET lot == lots[1]
       IN  IF ConsumesWholeLot(lot, remainingToSell)
           THEN OneMore(SellLoopWholeCost(Tail(lots),
                                  Sub(remainingToSell, lot.quantity),
                                  Add(totalCost, Mul(lot.quantity, lot.cost_per_unit))))
           ELSE OneMore(SellLoopWholeCost(
                  <<[lot EXCEPT !.quantity = Sub(@, remainingToSell)]>> \o Tail(lots),
                  Zero,
                  Add(totalCost, Mul(lot.quantity, lot.cost_per_unit))))
  ELSE [lots |-> lots, remainingToSell |-> remainingToSell,
        totalCost |-> totalCost, iterations |-> 0]

\* the while loop of handleSell (holdings.ts:144-158): the lots, the
\* remainingToSell and the totalCost it ends with, and the number of passes
\* it made
RECURSIVE SellLoop(_, _, _)
SellLoop(lots, remainingToSell, totalCost) ==
  IF Gt(remainingToSell, Zero) /\ Len(lots) > 0
  THEN LET lot == lots[1]
       IN  IF ConsumesWholeLot(lot, remainingToSell)
           THEN OneMore(SellLoop(Tail(lots),
                         Sub(remainingToSell, lot.quantity),
                         Add(totalCost, Mul(lot.quantity, lot.cost_per_unit))))
           ELSE OneMore(SellLoop(<<[lot EXCEPT !.quantity = Sub(@, remainingToSell)]>>
                            \o Tail(lots),
                         Zero,
                         Add(totalCost, Mul(remainingToSell, lot.cost_per_unit))))
  ELSE [lots |-> lots, remainingToSell |-> remainingToSell,
        totalCost |-> totalCost, iterations |-> 0]

\* mutant: the requested quantity is taken for the sold quantity
SoldQuantityRequested(position, tx) == OrElse(tx.quantity, Zero)

\* handleSell's soldQuantity (holdings.ts:160)
SoldQuantity(position, tx) ==
  Sub(OrElse(tx.quantity, Zero),
      SellLoop(position.lots, OrElse(tx.quantity, Zero), Zero).remainingToSell)

\* mutant: the fee is not taken off the proceeds
ProceedsWithoutFee(position, tx) ==
  Mul(SoldQuantity(position, tx), OrElse(tx.price, Zero))

\* handleSell's proceeds (holdings.ts:161)
Proceeds(position, tx) ==
  Sub(Mul(SoldQuantity(position, tx), OrElse(tx.price, Zero)),
      OrElse(tx.fee, Zero))

\* mutant: a sell leaves the cost_basis as it was
HandleSellKeepsCost(position, tx) ==
  LET end == SellLoop(position.lots, OrElse(tx.quantity, Zero), Zero)
      newQuantity == Sub(position.quantity, SoldQuantity(position, tx))
  IN  [position EXCEPT
         !.lots = end.lots,
         !.quantity = newQuantity,
         !.avg_cost = IF Gt(newQuantity, Zero)
                      THEN Div(position.cost_basis, newQuantity) ELSE Zero,
         !.realized_pnl = Add(@, Sub(Proceeds(position, tx), end.totalCost))]

\* handleSell (holdings.ts:136-175)
HandleSell(position, tx) ==
  LET end == SellLoop(position.lots, OrElse(tx.quantity, Zero), Zero)
      newQuantity == Sub(position.quantity, SoldQuantity(position, tx))
      newCostBasis == Sub(position.cost_basis, end.totalCost)
  IN  [position EXCEPT
         !.lots = end.lots,
         !.quantity = newQuantity,
         !.cost_basis = newCostBasis,
         !.avg_cost = IF Gt(newQuantity, Zero)
                      THEN Div(newCostBasis, newQuantity) ELSE Zero,
         !.realized_pnl = Add(@, Sub(Proceeds(position, tx), end.totalCost))]

\* handleSplit's splitRatio (holdings.ts:181)
SplitRatio(tx) == OrElse(tx.quantity, One)

\* mutant: the lots are scaled and the position's quantity is not
HandleSplitLotsOnly(position, tx) ==
  LET splitRatio == SplitRatio(tx)
  IN  [position EXCEPT
         !.lots = [k \in DOMAIN position.lots |->
                     [position.lots[k] EXCEPT
                        !.quantity = Mul(@, splitRatio),
                        !.cost_per_unit = Div(@, splitRatio)]],
         !.avg_cost = Div(position.cost_basis, position.quantity)]

\* mutant: quantities are scaled and cost_per_unit is left as it was
HandleSplitKeepsUnitCost(position, tx) ==
  LET splitRatio == SplitRatio(tx)
      newQuantity == Mul(position.quantity, splitRatio)
  IN  [position EXCEPT
         !.lots = [k \in DOMAIN position.lots |->
                     [position.lots[k] EXCEPT !.quantity = Mul(@, splitRatio)]],
         !.quantity = newQuantity,
         !.avg_cost = Div(position.cost_basis, newQuantity)]

\* mutant: the split scales the cost_basis with the quantity
HandleSplitScalesCost(position, tx) ==
  LET splitRatio == SplitRatio(tx)
      newQuantity == Mul(position.quantity, splitRatio)
      newCostBasis == Mul(position.cost_basis, splitRatio)
  IN  [position EXCEPT
         !.lots = [k \in DOMAIN position.lots |->
                     [position.lots[k] EXCEPT
                        !.quantity = Mul(@, splitRatio),
                        !.cost_per_unit = Div(@, splitRatio)]],
         !.quantity = newQuantity,
         !.cost_basis = newCostBasis,
         !.avg_cost = Div(newCostBasis, newQuantity)]

\* handleSplit (holdings.ts:180-193)
HandleSplit(position, tx) ==
  LET splitRatio == SplitRatio(tx)
      newQuantity == Mul(position.quantity, splitRatio)
  IN  [position EXCEPT
         !.lots = [k \in DOMAIN position.lots |->
                     [position.lots[k] EXCEPT
                        !.quantity = Mul(@, splitRatio),
                        !.cost_per_unit = Div(@, splitRatio)]],
         !.quantity = newQuantity,
         !.avg_cost = Div(position.cost_basis, newQuantity)]

----------------------------------------------------------------------------
(* The replay loop of computeHoldings (holdings.ts:56-92) *)

\* index in ps of the position of asset_id, 0 when the Map has none
IndexOf(ps, asset_id) ==
  IF \E k \in DOMAIN ps : ps[k].asset_id = asset_id
  THEN CHOOSE k \in DOMAIN ps : ps[k].asset_id = asset_id
  ELSE 0

HasPosition(ps, asset_id) == IndexOf(ps, asset_id) # 0

\* the continue statements of holdings.ts:57 and 63
Skipped(ps, as, tx) ==
  \/ tx.asset_id = ""
  \/ ~HasPosition(ps, tx.asset_id) /\ tx.asset_id \notin DOMAIN as

\* mutant: a fresh position is the latest position of the Map under the
\* new asset's key, symbol and name
GetOrCreateFromLatest(ps, as, tx) ==
  IF HasPosition(ps, tx.asset_id)
  THEN ps[IndexOf(ps, tx.asset_id)]
  ELSE IF ps = <<>>
       THEN NewPosition(tx.asset_id, as[tx.asset_id])
       ELSE [ps[Len(ps)] EXCEPT !.asset_id = tx.asset_id,
                                !.symbol = as[tx.asset_id].symbol,
                                !.name = as[tx.asset_id].name]

\* positions.get(tx.asset_id), or the fresh position (holdings.ts:60-76)
GetOrCreate(ps, as, tx) ==
  IF HasPosition(ps, tx.asset_id)
  THEN ps[IndexOf(ps, tx.asset_id)]
  ELSE NewPosition(tx.asset_id, as[tx.asset_id])

\* the Map with position p stored under its asset_id: a new key goes last
Put(ps, p) ==
  IF HasPosition(ps, p.asset_id)
  THEN [ps EXCEPT ![IndexOf(ps, p.asset_id)] = p]
  ELSE Append(ps, p)

\* mutant: a transaction of type fee adds its fee to the cost_basis
DispatchFeeIntoCost(position, tx) ==
  CASE tx.type = "buy" -> HandleBuy(position, tx)
    [] tx.type = "sell" -> HandleSell(position, tx)
    [] tx.type = "split" -> HandleSplit(position, tx)
    [] tx.type = "fee" ->
         [position EXCEPT !.cost_basis = Add(@, OrElse(tx.fee, Zero))]
    [] OTHER -> position

\* the switch of holdings.ts:78-91
Dispatch(position, tx) ==
  CASE tx.type = "buy" -> HandleBuy(position, tx)
    [] tx.type = "sell" -> HandleSell(position, tx)
    [] tx.type = "split" -> HandleSplit(position, tx)
    [] OTHER -> position

\* mutant: a transaction whose asset the lookup does not hold gets a
\* position without symbol and name
ProcessNoLookupCheck(ps, as, tx) ==
  IF tx.asset_id = "" THEN ps
  ELSE Put(ps, Dispatch(IF HasPosition(ps, tx.asset_id) \/ tx.asset_id \in DOMAIN as
                        THEN GetOrCreate(ps, as, tx)
                        ELSE NewPosition(tx.asset_id, [symbol |-> "", name |-> ""]),
                        tx))

\* one iteration of the for loop
Process(ps, as, tx) ==
  IF Skipped(ps, as, tx) THEN ps
  ELSE Put(ps, Dispatch(GetOrCreate(ps, as, tx), tx))

\* the positions after the loop has run over txs, starting from ps
RECURSIVE Replay(_, _, _)
Replay(ps, as, txs) ==
  IF txs = <<>> THEN ps
  ELSE Replay(Process(ps, as, Head(txs)), as, Tail(txs))

\* mutant: a position at quantity 0 counts as open
IsOpenOrEmpty(p) == ~Lt(p.quantity, Zero)

\* whether a position is reported (holdings.ts:96)
IsOpen(p) == Gt(p.quantity, Zero)

\* filter and map of holdings.ts:95-105
RECURSIVE OpenHoldings(_)
OpenHoldings(ps) ==
  IF ps = <<>> THEN <<>>
  ELSE (IF IsOpen(Head(ps)) THEN <<ToHolding(Head(ps))>> ELSE <<>>)
         \o OpenHoldings(Tail(ps))

\* computeHoldings as a function of its arguments
ComputeHoldings(txs, as) == OpenHoldings(Replay(<<>>, as, SortTx(txs)))

----------------------------------------------------------------------------
(* Inputs *)

\* the asset lookup: "X" is an asset_id it does not hold
AssetMaps ==
  {[a \in {"A", "B"} |->
      IF a = "A" THEN [symbol |-> "AAA", name |-> "Alpha"]
                 ELSE [symbol |-> "BBB", name |-> "Beta"]]}

Body(type, asset_id, quantity, price, fee) ==
  [type |-> type, asset_id |-> asset_id, quantity |-> quantity,
   price |-> price, fee |-> fee]

\* what a transaction of the input may be, its id and dates apart.  Every
\* number is an integer and the one split ratio is 2, so every quantity and
\* cost the replay computes is a dyadic rational (ExactInBinary64 below):
\* on these inputs exact arithmetic and binary64 arithmetic agree.
TxBodies ==
       {Body("buy", "A", Num(10), pf[1], pf[2]) :
          pf \in {<<Num(100), Zero>>, <<Num(200), Zero>>, <<Num(100), Num(20)>>}}
  \cup {Body("buy", "A", Null, Num(100), Num(20))}
  \cup {Body("sell", "A", q, Num(150), Num(5)) :
          q \in {Num(4), Num(10), Num(12), Num(15)}}
  \cup {Body("split", "A", q, Null, Zero) : q \in {Null, Num(2)}}
  \cup {Body("dividend", "A", Null, Null, Zero)}
  \cup {Body("buy", a, Num(10), Num(100), Zero) : a \in {"B", "", "X"}}

\* how the dates of a list run:
\*   "desc"     one trade_date each, newest first
\*   "sameday"  one trade_date, created_at newest first
\*   "tie"      one trade_date and one created_at for all
DatePatterns == {"desc", "sameday", "tie"}

TradeDate(pat, n, k) == IF pat = "desc" THEN n + 1 - k ELSE 1

CreatedAt(pat, n, k) == IF pat = "sameday" THEN n + 1 - k ELSE 1

\* the lists of n transactions: ids are 1..n in list order
TxLists(n) ==
  {[k \in 1..n |->
      Tx(k, b[k].type, b[k].asset_id, b[k].quantity, b[k].price, b[k].fee,
         TradeDate(pat, n, k), CreatedAt(pat, n, k))] :
     b \in [1..n -> TxBodies], pat \in DatePatterns}

\* the inputs at the edge of what computeHoldings is given: zero and
\* negative quantities, a sell without quantity, every type of the default
\* branch, a transaction without asset_id and ones whose asset the lookup
\* does not hold
EdgeBodies ==
       {Body("buy", "A", q, Num(100), Zero) : q \in {Num(10), Num(-5), Zero}}
  \cup {Body("sell", "A", q, Num(150), Num(5)) :
          q \in {Num(4), Num(15), Num(-3), Null}}
  \cup {Body("split", "A", q, Null, Zero) : q \in {Null, Num(2)}}
  \cup {Body("dividend", "A", Null, Null, Zero),
        Body("fee", "A", Null, Null, Num(5)),
        Body("interest", "A", Null, Null, Zero)}
  \cup {Body("dividend", "", Null, Null, Zero),
        Body("buy", "X", Num(10), Num(100), Zero),
        Body("sell", "X", Num(4), Num(150), Num(5))}

\* the lists of n such transactions, one trade_date each, newest first
EdgeTxLists(n) ==
  {[k \in 1..n |->
      Tx(k, b[k].type, b[k].asset_id, b[k].quantity, b[k].price, b[k].fee,
         TradeDate("desc", n, k), CreatedAt("desc", n, k))] :
     b \in [1..n -> EdgeBodies]}

----------------------------------------------------------------------------
(* The state machine: one call of computeHoldings *)

NoLocals ==
  [op |-> "none", soldQuantity |-> Zero, totalCost |-> Zero,
   proceeds |-> Zero, costPerUnit |-> Zero, splitRatio |-> Zero,
   iterations |-> 0]

Init ==
  /\ \E n \in 0..MaxTx : transactions \in TxLists(n)
  /\ assets \in AssetMaps
  /\ sortedTx = <<>>
  /\ i = 0
  /\ positions = <<>>
  /\ last = NoLocals
  /\ holdings = <<>>
  /\ pc = "start"
  /\ invested = Zero
  /\ ElsewhereIdle

\* holdings.ts:47-54: the empty Map and the sorted copy
Sort ==
  /\ pc = "start"
  /\ transactions' = SortedCopy(transactions).input
  /\ sortedTx' = SortedCopy(transactions).sorted
  /\ i' = 1
  /\ pc' = "loop"
  /\ UNCHANGED <<assets, positions, last, holdings, invested>>
  /\ UNCHANGED elsewhere

InLoop == pc = "loop" /\ i <= Len(sortedTx)

\* an iteration that applies handler type to the element's position
Iterate(type) ==
  /\ InLoop
  /\ ~Skipped(positions, assets, sortedTx[i])
  /\ sortedTx[i].type = type
  /\ positions' = Process(positions, assets, sortedTx[i])
  /\ i' = i + 1
  /\ UNCHANGED <<transactions, assets, sortedTx, holdings, pc, invested>>
  /\ UNCHANGED elsewhere

\* mutant: the skip does not move on to the next transaction
SkipTxStuck ==
  /\ InLoop
  /\ Skipped(positions, assets, sortedTx[i])
  /\ last' = [NoLocals EXCEPT !.op = "skip"]
  /\ UNCHANGED <<transactions, assets, sortedTx, i, positions, holdings, pc,
                 invested>>
  /\ UNCHANGED elsewhere

\* holdings.ts:57 and 63: continue
SkipTx ==
  /\ InLoop
  /\ Skipped(positions, assets, sortedTx[i])
  /\ positions' = Process(positions, assets, sortedTx[i])
  /\ i' = i + 1
  /\ last' = [NoLocals EXCEPT !.op = "skip"]
  /\ UNCHANGED <<transactions, assets, sortedTx, holdings, pc, invested>>
  /\ UNCHANGED elsewhere

ApplyBuy ==
  /\ Iterate("buy")
  /\ last' = [NoLocals EXCEPT !.op = "buy",
                              !.costPerUnit = CostPerUnit(sortedTx[i])]

ApplySell ==
  /\ Iterate("sell")
  /\ LET position == GetOrCreate(positions, assets, sortedTx[i])
         tx == sortedTx[i]
     IN  last' = [NoLocals EXCEPT
                    !.op = "sell",
                    !.soldQuantity = SoldQuantity(position, tx),
                    !.totalCost = SellLoop(position.lots,
                                           OrElse(tx.quantity, Zero),
                                           Zero).totalCost,
                    !.iterations = SellLoop(position.lots,
                                            OrElse(tx.quantity, Zero),
                                            Zero).iterations,
                    !.proceeds = Proceeds(position, tx)]

ApplySplit ==
  /\ Iterate("split")
  /\ last' = [NoLocals EXCEPT !.op = "split",
                              !.splitRatio = SplitRatio(sortedTx[i])]

\* dividend, fee, interest: the default branch
ApplyOther ==
  /\ InLoop
  /\ sortedTx[i].type \notin {"buy", "sell", "split"}
  /\ Iterate(sortedTx[i].type)
  /\ last' = [NoLocals EXCEPT !.op = "other"]

\* holdings.ts:95-105
Return ==
  /\ pc = "loop"
  /\ i > Len(sortedTx)
  /\ holdings' = OpenHoldings(positions)
  /\ pc' = "done"
  /\ UNCHANGED <<transactions, assets, sortedTx, i, positions, last, invested>>
  /\ UNCHANGED elsewhere

Next ==
  \/ Sort
  \/ SkipTx
  \/ ApplyBuy
  \/ ApplySell
  \/ ApplySplit
  \/ ApplyOther
  \/ Return

Spec == Init /\ [][Next]_vars

\* a call on a list of edge inputs
InitEdge ==
  /\ \E n \in 0..MaxTx : transactions \in EdgeTxLists(n)
  /\ assets \in AssetMaps
  /\ sortedTx = <<>>
  /\ i = 0
  /\ positions = <<>>
  /\ last = NoLocals
  /\ holdings = <<>>
  /\ pc = "start"
  /\ invested = Zero
  /\ ElsewhereIdle

SpecEdge == InitEdge /\ [][Next]_vars

\* transactions of one asset that is bought, sold out and bought again,
\* among them a buy without quantity, next to a split, a dividend and an
\* asset the lookup does not hold
ReopenBodies ==
       {Body("buy", "A", Num(10), Num(100), Zero),
        Body("buy", "A", Num(10), Num(200), Num(20)),
        Body("buy", "A", Null, Num(100), Num(20))}
  \cup {Body("sell", "A", q, Num(150), Num(5)) : q \in {Num(4), Num(10)}}
  \cup {Body("split", "A", Num(2), Null, Zero),
        Body("dividend", "A", Null, Null, Zero),
        Body("buy", "X", Num(10), Num(100), Zero)}

\* the lists of n such transactions, one trade_date each, newest first
ReopenTxLists(n) ==
  {[k \in 1..n |->
      Tx(k, b[k].type, b[k].asset_id, b[k].quantity, b[k].price, b[k].fee,
         TradeDate("desc", n, k), CreatedAt("desc", n, k))] :
     b \in [1..n -> ReopenBodies]}

\* a call on a list long enough to open a position, add to it, close it
\* and open it again
InitReopen ==
  /\ \E n \in 0..(MaxTx + 1) : transactions \in ReopenTxLists(n)
  /\ assets \in AssetMaps
  /\ sortedTx = <<>>
  /\ i = 0
  /\ positions = <<>>
  /\ last = NoLocals
  /\ holdings = <<>>
  /\ pc = "start"
  /\ invested = Zero
  /\ ElsewhereIdle

SpecReopen == InitReopen /\ [][Next]_vars

----------------------------------------------------------------------------
(* computeInvestedAmount (holdings.ts:198-223) *)

\* tx.amount: undefined (read as null) on a record without the field
Amount(tx) == IF "amount" \in DOMAIN tx THEN tx.amount ELSE Null

\* mutant: a sell takes its fee off as well
InvestedAfterSellFeeOff(total, tx) ==
  LET quantity == OrElse(tx.quantity, Zero)
      price == OrElse(tx.price, Zero)
      amount == OrElse(Amount(tx), Zero)
      fee == OrElse(tx.fee, Zero)
  IN  CASE tx.type = "buy" -> Add(total, Add(Mul(quantity, price), fee))
        [] tx.type = "sell" -> Sub(total, Add(Mul(quantity, price), fee))
        [] tx.type = "fee" -> Add(total, OrElse(amount, fee))
        [] OTHER -> total

\* mutant: the total never goes below 0
InvestedAfterFloored(total, tx) ==
  LET quantity == OrElse(tx.quantity, Zero)
      price == OrElse(tx.price, Zero)
      amount == OrElse(Amount(tx), Zero)
      fee == OrElse(tx.fee, Zero)
      after == CASE tx.type = "buy" -> Add(total, Add(Mul(quantity, price), fee))
                 [] tx.type = "sell" -> Sub(total, Sub(Mul(quantity, price), fee))
                 [] tx.type = "fee" -> Add(total, OrElse(amount, fee))
                 [] OTHER -> total
  IN  IF Lt(after, Zero) THEN Zero ELSE after

\* one iteration of the for loop (holdings.ts:201-220): the total after tx
InvestedAfter(total, tx) ==
  LET quantity == OrElse(tx.quantity, Zero)
      price == OrElse(tx.price, Zero)
      amount == OrElse(Amount(tx), Zero)
      fee == OrElse(tx.fee, Zero)
  IN  CASE tx.type = "buy" -> Add(total, Add(Mul(quantity, price), fee))
        [] tx.type = "sell" -> Sub(total, Sub(Mul(quantity, price), fee))
        [] tx.type = "fee" -> Add(total, OrElse(amount, fee))
        [] OTHER -> total

\* computeInvestedAmount as a function of its argument
RECURSIVE InvestedFrom(_, _)
InvestedFrom(total, txs) ==
  IF txs = <<>> THEN total
  ELSE InvestedFrom(InvestedAfter(total, Head(txs)), Tail(txs))

ComputeInvestedAmount(txs) == InvestedFrom(Zero, txs)

\* a transaction with the amount field
WithAmount(tx, amount) ==
  [id |-> tx.id, type |-> tx.type, asset_id |-> tx.asset_id,
   quantity |-> tx.quantity, price |-> tx.price, fee |-> tx.fee,
   amount |-> amount, trade_date |-> tx.trade_date,
   created_at |-> tx.created_at]

\* marks a record that has no amount field
NoField == <<0, 0, 0>>

\* what a transaction handed to computeInvestedAmount may be: a body and
\* its amount, NoField for a record without the field
InvestedBodies ==
       {<<Body("buy", "A", q, Num(100), Num(20)), Null>> : q \in {Num(10), Null}}
  \cup {<<Body("sell", "A", Num(4), p, Num(5)), Null>> : p \in {Num(150), Null}}
  \cup {<<Body("fee", "A", Null, Null, f), a>> :
          f \in {Zero, Num(5)}, a \in {Null, Zero, Num(7)}}
  \cup {<<Body("fee", "A", Null, Null, Num(5)), NoField>>}
  \cup {<<Body("dividend", "A", Null, Null, Zero), Num(50)>>,
        <<Body("interest", "A", Null, Null, Num(5)), Num(3)>>,
        <<Body("split", "A", Num(2), Null, Zero), Null>>}

InvestedTxLists(n) ==
  {[k \in 1..n |->
      LET tx == Tx(k, b[k][1].type, b[k][1].asset_id, b[k][1].quantity,
                   b[k][1].price, b[k][1].fee,
                   TradeDate("desc", n, k), CreatedAt("desc", n, k))
      IN  IF b[k][2] = NoField THEN tx ELSE WithAmount(tx, b[k][2])] :
     b \in [1..n -> InvestedBodies]}

\* the state after `let invested = 0`
InitInvested ==
  /\ \E n \in 0..MaxTx : transactions \in InvestedTxLists(n)
  /\ assets \in AssetMaps
  /\ sortedTx = <<>>
  /\ i = 1
  /\ positions = <<>>
  /\ last = NoLocals
  /\ holdings = <<>>
  /\ pc = "invest"
  /\ invested = Zero
  /\ ElsewhereIdle

\* an iteration of the for loop on a transaction whose type is in types
Invest(types) ==
  /\ pc = "invest"
  /\ i <= Len(transactions)
  /\ transactions[i].type \in types
  /\ invested' = InvestedAfter(invested, transactions[i])
  /\ i' = i + 1
  /\ UNCHANGED <<transactions, assets, sortedTx, positions, last, holdings, pc>>
  /\ UNCHANGED elsewhere

InvestBuy == Invest({"buy"})

InvestSell == Invest({"sell"})

InvestFee == Invest({"fee"})

\* the default branch
InvestOther == Invest({"dividend", "interest", "split"})

\* return invested
InvestReturn ==
  /\ pc = "invest"
  /\ i > Len(transactions)
  /\ pc' = "invested"
  /\ UNCHANGED <<transactions, assets, sortedTx, i, positions, last, holdings,
                 invested>>
  /\ UNCHANGED elsewhere

NextInvested ==
  \/ InvestBuy
  \/ InvestSell
  \/ InvestFee
  \/ InvestOther
  \/ InvestReturn

SpecInvested == InitInvested /\ [][NextInvested]_vars

----------------------------------------------------------------------------
(* The two functions on one list, as the Investments page calls them      *)
(* (src/src/pages/Investments.tsx:188-200)                                 *)

\* transactions of a portfolio that is bought, sold out, bought again and
\* split, with and without fees, next to a second asset, a standalone fee,
\* an asset the lookup does not hold and a record without asset_id
PageBodies ==
       {Body("buy", "A", Num(10), pf[1], pf[2]) :
          pf \in {<<Num(100), Zero>>, <<Num(150), Zero>>, <<Num(150), Num(20)>>}}
  \cup {Body("sell", "A", Num(10), pf[1], pf[2]) :
          pf \in {<<Num(150), Zero>>, <<Num(150), Num(5)>>, <<Num(100), Zero>>}}
  \cup {Body("sell", "A", Num(4), Num(150), Zero)}
  \cup {Body("split", "A", Num(2), Null, Zero)}
  \cup {Body("fee", "A", Null, Null, Num(5))}
  \cup {Body("buy", a, Num(10), Num(100), Zero) : a \in {"B", "X"}}
  \cup {Body("sell", "B", Num(4), Num(150), Num(5)),
        Body("sell", "", Null, Null, Zero)}

\* the lists of n such transactions, one trade_date each, newest first
PageTxLists(n) ==
  {[k \in 1..n |->
      Tx(k, b[k].type, b[k].asset_id, b[k].quantity, b[k].price, b[k].fee,
         TradeDate("desc", n, k), CreatedAt("desc", n, k))] :
     b \in [1..n -> PageBodies]}

InitPage ==
  /\ \E n \in 0..MaxTx : transactions \in PageTxLists(n)
  /\ assets \in AssetMaps
  /\ sortedTx = <<>>
  /\ i = 0
  /\ positions = <<>>
  /\ last = NoLocals
  /\ holdings = <<>>
  /\ pc = "start"
  /\ invested = Zero
  /\ ElsewhereIdle

\* Investments.tsx:200: after computeHoldings has returned,
\* computeInvestedAmount is called on the same list
ThenInvested ==
  /\ pc = "done"
  /\ pc' = "invest"
  /\ i' = 1
  /\ invested' = Zero
  /\ UNCHANGED <<transactions, assets, sortedTx, positions, last, holdings>>
  /\ UNCHANGED elsewhere

NextPage ==
  \/ Next
  \/ ThenInvested
  \/ NextInvested

SpecPage == InitPage /\ [][NextPage]_vars

----------------------------------------------------------------------------
(* Sanity of the number model *)

RECURSIVE IsPowerOfTwo(_)
IsPowerOfTwo(d) == d = 1 \/ (d > 1 /\ d % 2 = 0 /\ IsPowerOfTwo(d \div 2))

\* a value binary64 holds exactly: NaN, an infinity, or a dyadic rational
\* with a small numerator
Binary64Exact(a) == a[2] = 0 \/ (IsPowerOfTwo(a[2]) /\ Abs(a[1]) < 1000000)

\* Every number the replay stores, avg_cost apart, is exact in binary64, so
\* the exact arithmetic of this model is the arithmetic of the build on the
\* inputs of TxLists.  (avg_cost is a quotient that is written and never
\* read back.)
ExactInBinary64 ==
  /\ \A k \in DOMAIN positions :
       /\ Binary64Exact(positions[k].quantity)
       /\ Binary64Exact(positions[k].cost_basis)
       /\ Binary64Exact(positions[k].realized_pnl)
       /\ \A j \in DOMAIN positions[k].lots :
            /\ Binary64Exact(positions[k].lots[j].quantity)
            /\ Binary64Exact(positions[k].lots[j].cost_per_unit)
  /\ Binary64Exact(last.soldQuantity)
  /\ Binary64Exact(last.totalCost)
  /\ Binary64Exact(last.proceeds)
  /\ Binary64Exact(last.costPerUnit)

----------------------------------------------------------------------------
(* Vocabulary of the claims *)

RECURSIVE SumQuantity(_)
SumQuantity(lots) ==
  IF lots = <<>> THEN Zero
  ELSE Add(SumQuantity(SubSeq(lots, 1, Len(lots) - 1)), lots[Len(lots)].quantity)

RECURSIVE SumCost(_)
SumCost(lots) ==
  IF lots = <<>> THEN Zero
  ELSE Add(SumCost(SubSeq(lots, 1, Len(lots) - 1)),
           Mul(lots[Len(lots)].quantity, lots[Len(lots)].cost_per_unit))

\* the transaction the loop is about to handle, and whether a handler runs
CurTx == sortedTx[i]
Handles(type) ==
  InLoop /\ ~Skipped(positions, assets, CurTx) /\ CurTx.type = type

\* the position the handler is given, and the same position afterwards
Pre == GetOrCreate(positions, assets, CurTx)
Post == positions'[IndexOf(positions', CurTx.asset_id)]

\* the transaction the latest iteration handled
PrevTx == sortedTx[i - 1]
JustRan(op) == pc = "loop" /\ i > 1 /\ last.op = op
PrevPosition == positions[IndexOf(positions, PrevTx.asset_id)]

----------------------------------------------------------------------------
(* Claims *)

\* C1: at every point of the replay (so after every applied transaction:
\* buy, sell, split or other) each position's quantity equals the sum of
\* the quantities of its remaining lots.
C1_QuantityIsSumOfLots ==
  \A k \in DOMAIN positions :
    positions[k].quantity = SumQuantity(positions[k].lots)

\* C1 witness: a sell has just consumed part of a position whose lots were
\* scaled by a split, and a lot remains.
C1_Witness ==
  /\ JustRan("sell")
  /\ Len(PrevPosition.lots) >= 1
  /\ Lt(Zero, last.soldQuantity)
  /\ \E k \in 1..(i - 2) : sortedTx[k].type = "split" /\ sortedTx[k].quantity = Num(2)

\* C2 (as claimed): at every point of the replay each position's cost_basis
\* equals the sum over its remaining lots of quantity * cost_per_unit,
\* zero-quantity buys included.
C2_CostBasisIsLotCost ==
  \A k \in DOMAIN positions :
    positions[k].cost_basis = SumCost(positions[k].lots)

\* the quantity a sell asks for
Requested(tx) == IF tx.quantity = Null THEN Zero ELSE tx.quantity

MinNum(a, b) == IF Lt(b, a) THEN b ELSE a

\* the units of lot j among the first q units of lots: those left of the q
\* once the lots in front of it are counted
UnitsFrom(lots, q, j) ==
  LET before == SumQuantity(SubSeq(lots, 1, j - 1))
  IN  IF Lt(before, q) THEN MinNum(lots[j].quantity, Sub(q, before)) ELSE Zero

\* the cost of the first q units of lots, front to back: each lot reached
\* gives its units at its own cost_per_unit
RECURSIVE FrontCostUpTo(_, _, _)
FrontCostUpTo(lots, q, j) ==
  IF j = 0 THEN Zero
  ELSE IF Lt(SumQuantity(SubSeq(lots, 1, j - 1)), q)
       THEN Add(FrontCostUpTo(lots, q, j - 1),
                Mul(UnitsFrom(lots, q, j), lots[j].cost_per_unit))
       ELSE FrontCostUpTo(lots, q, j - 1)

FrontCost(lots, q) == FrontCostUpTo(lots, q, Len(lots))

\* a is before b in the order of (trade_date, created_at)
KeyLt(a, b) ==
  \/ a.trade_date < b.trade_date
  \/ a.trade_date = b.trade_date /\ a.created_at < b.created_at

\* the transaction of the input a lot came from
TxOfLot(lot) ==
  CHOOSE t \in {transactions[k] : k \in DOMAIN transactions} :
    t.id = lot.transaction_id

\* every position's lots run in the (trade_date, created_at) order of the
\* buys they came from
LotsInBuyOrder ==
  \A k \in DOMAIN positions :
    \A a, b \in DOMAIN positions[k].lots :
      a < b => ~KeyLt(TxOfLot(positions[k].lots[b]),
                      TxOfLot(positions[k].lots[a]))

\* quantity and cost_per_unit of each lot
Shape(lots) ==
  [k \in DOMAIN lots |-> <<lots[k].quantity, lots[k].cost_per_unit>>]

\* C3: the lot list runs in the (trade_date, created_at) order of the buys,
\* and a sell of q units consumes the cost of the first q units from the
\* front of the list; on lots 10@100, 10@200 a sell of 12 consumes 1400 and
\* leaves 8 units @ 200 with cost_basis 1600 and avg_cost 200.
C3_SellConsumesOldestFirst ==
  /\ []LotsInBuyOrder
  /\ [][Handles("sell") =>
          /\ last'.totalCost = FrontCost(Pre.lots, Requested(CurTx))
          /\ Post.cost_basis =
               Sub(Pre.cost_basis, FrontCost(Pre.lots, Requested(CurTx)))
          /\ (/\ Shape(Pre.lots) = <<<<Num(10), Num(100)>>, <<Num(10), Num(200)>>>>
              /\ Pre.cost_basis = Num(3000)
              /\ Requested(CurTx) = Num(12))
             => /\ last'.totalCost = Num(1400)
                /\ Post.quantity = Num(8)
                /\ Shape(Post.lots) = <<<<Num(8), Num(200)>>>>
                /\ Post.cost_basis = Num(1600)
                /\ Post.avg_cost = Num(200)]_vars

\* C3 witness: buys of 10@100 and 10@200, then a sell of 12, have run.
C3_Witness ==
  /\ JustRan("sell")
  /\ i = 4
  /\ Shape([k \in 1..2 |-> [quantity |-> sortedTx[k].quantity,
                            cost_per_unit |-> CostPerUnit(sortedTx[k])]])
       = <<<<Num(10), Num(100)>>, <<Num(10), Num(200)>>>>
  /\ sortedTx[1].type = "buy" /\ sortedTx[2].type = "buy"
  /\ PrevTx.quantity = Num(12)
  /\ last.totalCost = Num(1400)
  /\ PrevPosition.cost_basis = Num(1600)
  /\ PrevPosition.avg_cost = Num(200)

\* C4: a sell removes from the front exactly the lots it consumes whole
\* (their quantities add up to no more than the sold quantity); what is
\* left of the sold quantity, if anything, is taken from the next lot, which
\* stays in front with a smaller quantity and nothing else changed; every
\* lot behind is as it was, in the same order.
C4_SellRemovesOnlyConsumedLots ==
  [][Handles("sell") =>
       \E k \in 0..Len(Pre.lots) :
         LET gone == SumQuantity(SubSeq(Pre.lots, 1, k))
             rest == Sub(last'.soldQuantity, gone)
         IN  /\ Le(gone, last'.soldQuantity)
             /\ IF rest = Zero
                THEN Post.lots = SubSeq(Pre.lots, k + 1, Len(Pre.lots))
                ELSE /\ k < Len(Pre.lots)
                     /\ Lt(rest, Pre.lots[k + 1].quantity)
                     /\ Post.lots =
                          <<[Pre.lots[k + 1] EXCEPT !.quantity = Sub(@, rest)]>>
                            \o SubSeq(Pre.lots, k + 2, Len(Pre.lots))]_vars

\* C4 witness: a sell of 12 has removed the first lot of 10 and left the
\* second, shrunk to 8, in front.
C4_Witness ==
  /\ JustRan("sell")
  /\ PrevTx.quantity = Num(12)
  /\ last.soldQuantity = Num(12)
  /\ Len(PrevPosition.lots) = 1
  /\ PrevPosition.lots[1].quantity = Num(8)
  /\ PrevPosition.lots[1].transaction_id = sortedTx[2].id

C6_NoClosedHolding ==
  pc = "done" =>
    /\ \A h \in DOMAIN holdings : Gt(holdings[h].quantity, Zero)
    /\ \A k \in DOMAIN positions :
         positions[k].quantity = Zero =>
           \A h \in DOMAIN holdings :
             holdings[h].asset_id # positions[k].asset_id

\* C6 witness: the call has returned; a position bought and sold down to 0
\* is not in the output, which holds another asset.
C6_Witness ==
  /\ pc = "done"
  /\ holdings # <<>>
  /\ \E k \in DOMAIN positions :
       /\ positions[k].quantity = Zero
       /\ \E a, b \in DOMAIN sortedTx :
            /\ sortedTx[a].type = "buy" /\ sortedTx[a].asset_id = positions[k].asset_id
            /\ sortedTx[b].type = "sell" /\ sortedTx[b].asset_id = positions[k].asset_id
            /\ a < b

\* the ratio of a split: its quantity, 1 when that is absent or 0
RatioOf(tx) == IF tx.quantity \in {Null, Zero} THEN One ELSE tx.quantity

\* C7: a split with ratio r multiplies every lot's quantity and the
\* position's quantity by r, divides every lot's cost_per_unit by r, leaves
\* cost_basis, realized_pnl and the lots' total cost as they were, and sets
\* avg_cost to cost_basis / the new quantity.
C7_SplitScalesLots ==
  [][Handles("split") =>
       LET r == RatioOf(CurTx)
       IN  /\ Len(Post.lots) = Len(Pre.lots)
           /\ \A k \in DOMAIN Pre.lots :
                /\ Post.lots[k].quantity = Mul(Pre.lots[k].quantity, r)
                /\ Post.lots[k].cost_per_unit = Div(Pre.lots[k].cost_per_unit, r)
                /\ Post.lots[k].purchase_date = Pre.lots[k].purchase_date
                /\ Post.lots[k].transaction_id = Pre.lots[k].transaction_id
           /\ Post.quantity = Mul(Pre.quantity, r)
           /\ Post.cost_basis = Pre.cost_basis
           /\ Post.realized_pnl = Pre.realized_pnl
           /\ SumCost(Post.lots) = SumCost(Pre.lots)
           /\ Post.avg_cost = Div(Pre.cost_basis, Mul(Pre.quantity, r))]_vars

\* C7 witness: a 2-for-1 split has turned a lot of 10 @ 102 into 20 @ 51.
C7_Witness ==
  /\ JustRan("split")
  /\ last.splitRatio = Num(2)
  /\ Shape(PrevPosition.lots) = <<<<Num(20), Num(51)>>>>
  /\ PrevPosition.cost_basis = Num(1020)
  /\ PrevPosition.avg_cost = Num(51)

\* the lists that hold the elements of txs in another order
Reorderings(txs) ==
  {[k \in DOMAIN txs |-> txs[f[k]]] : f \in Permutations(DOMAIN txs)}

\* the holdings of a result, whose order is not part of the contract
HoldingSet(hs) == {hs[k] : k \in DOMAIN hs}

\* no two transactions of the input share both trade_date and created_at
KeysDistinct ==
  \A a, b \in DOMAIN transactions :
    a # b => \/ KeyLt(transactions[a], transactions[b])
             \/ KeyLt(transactions[b], transactions[a])

\* C8 (as claimed): every reordering of the input list gives the holdings
\* the call returned (as a set: the order of the output is unspecified).
C8_AnyOrderSameHoldings ==
  pc = "done" =>
    \A txs \in Reorderings(transactions) :
      HoldingSet(ComputeHoldings(txs, assets)) = HoldingSet(holdings)

\* C8 (amended): when no two transactions share both trade_date and
\* created_at, every reordering of the input list gives the holdings the
\* call returned.  (computeHoldings reads its list only through the sorted
\* copy, so a reordering with the same sorted copy is replayed once.)
C8_AnyOrderSameHoldingsDistinctKeys ==
  (pc = "done" /\ KeysDistinct) =>
    LET replayed == HoldingSet(OpenHoldings(Replay(<<>>, assets, sortedTx)))
    IN  \A txs \in Reorderings(transactions) :
          IF SortTx(txs) = sortedTx
          THEN replayed = HoldingSet(holdings)
          ELSE HoldingSet(ComputeHoldings(txs, assets)) = HoldingSet(holdings)

\* C8 witness: a list of three transactions with distinct keys, given out
\* of order, has been replayed into a non-empty result.
C8_Witness ==
  /\ pc = "done"
  /\ KeysDistinct
  /\ Len(transactions) >= 3
  /\ sortedTx # transactions
  /\ holdings # <<>>

\* the holding of asset_id among hs
HoldingOf(hs, asset_id) ==
  hs[CHOOSE h \in DOMAIN hs : hs[h].asset_id = asset_id]

\* txs with the created_at of its elements a and b exchanged
SwapCreatedAt(txs, a, b) ==
  [txs EXCEPT ![a].created_at = txs[b].created_at,
              ![b].created_at = txs[a].created_at]

\* elements a and b of the input are buys of one asset on one trade_date,
\* a created before b, at different costs per unit; element s is a later
\* sell of part of what they bought; nothing else in the input touches the
\* asset's lots
TieBreakCase(a, b, s) ==
  LET ta == transactions[a]
      tb == transactions[b]
      ts == transactions[s]
  IN  /\ a # b /\ a # s /\ b # s
      /\ ta.type = "buy" /\ tb.type = "buy" /\ ts.type = "sell"
      /\ ta.asset_id \in DOMAIN assets
      /\ tb.asset_id = ta.asset_id /\ ts.asset_id = ta.asset_id
      /\ ta.trade_date = tb.trade_date
      /\ ta.created_at < tb.created_at
      /\ KeyLt(tb, ts)
      /\ ta.quantity # Null /\ Gt(ta.quantity, Zero)
      /\ tb.quantity # Null /\ Gt(tb.quantity, Zero)
      /\ CostPerUnit(ta) # CostPerUnit(tb)
      /\ ts.quantity # Null /\ Gt(ts.quantity, Zero)
      /\ Lt(ts.quantity, Add(ta.quantity, tb.quantity))
      /\ \A k \in DOMAIN transactions \ {a, b, s} :
           \/ transactions[k].asset_id # ta.asset_id
           \/ transactions[k].type \notin {"buy", "sell", "split"}

\* C9: of two buys with one trade_date the one created first is consumed
\* first by a later partial sell, and exchanging their created_at values
\* changes the cost_basis that remains.
C9_CreatedAtBreaksTies ==
  pc = "done" =>
    \A a, b, s \in DOMAIN transactions :
      TieBreakCase(a, b, s) =>
        LET ta == transactions[a]
            tb == transactions[b]
            q == transactions[s].quantity
            fromA == MinNum(q, ta.quantity)
            fromB == Sub(q, fromA)
            bought == Add(Mul(ta.quantity, CostPerUnit(ta)),
                          Mul(tb.quantity, CostPerUnit(tb)))
            consumed == Add(Mul(fromA, CostPerUnit(ta)),
                            Mul(fromB, CostPerUnit(tb)))
            swapped == ComputeHoldings(SwapCreatedAt(transactions, a, b), assets)
        IN  /\ HoldingOf(holdings, ta.asset_id).cost_basis = Sub(bought, consumed)
            /\ HoldingOf(swapped, ta.asset_id).cost_basis
                 # HoldingOf(holdings, ta.asset_id).cost_basis

\* C9 witness: the call has returned on an input with two such buys and a
\* later partial sell.
C9_Witness ==
  /\ pc = "done"
  /\ \E a, b, s \in DOMAIN transactions : TieBreakCase(a, b, s)

\* a field that may be null, read as a number
ValueOf(v) == IF v = Null THEN Zero ELSE v

\* C10: a buy of q > 0 units at price p with fee f appends the lot
\* (q, p + f/q) behind the lots held, which stay as they were, adds q to the
\* quantity and q*p + f to the cost_basis and leaves realized_pnl alone;
\* 10 @ 100 with fee 20 gives cost_per_unit 102.
C10_BuyAppendsLot ==
  [][(Handles("buy") /\ CurTx.quantity # Null /\ Gt(CurTx.quantity, Zero)) =>
       LET q == CurTx.quantity
           p == ValueOf(CurTx.price)
           f == ValueOf(CurTx.fee)
       IN  /\ Post.lots = Append(Pre.lots,
                                 Lot(q, Add(p, Div(f, q)), CurTx.trade_date, CurTx.id))
           /\ Post.quantity = Add(Pre.quantity, q)
           /\ Post.cost_basis = Add(Pre.cost_basis, Add(Mul(q, p), f))
           /\ Post.realized_pnl = Pre.realized_pnl
           /\ (q = Num(10) /\ p = Num(100) /\ f = Num(20))
                => /\ last'.costPerUnit = Num(102)
                   /\ Post.lots[Len(Post.lots)].cost_per_unit = Num(102)
                   /\ Post.cost_basis = Add(Pre.cost_basis, Num(1020))]_vars

\* C10 witness: 10 @ 100 with fee 20 has been bought into a position that
\* held a lot of 10 @ 200.
C10_Witness ==
  /\ JustRan("buy")
  /\ PrevTx.quantity = Num(10) /\ PrevTx.price = Num(100) /\ PrevTx.fee = Num(20)
  /\ last.costPerUnit = Num(102)
  /\ Shape(PrevPosition.lots) = <<<<Num(10), Num(200)>>, <<Num(10), Num(102)>>>>
  /\ PrevPosition.cost_basis = Num(3020)

\* the quantity of a transaction is absent, zero or negative
NonPositive(v) == v = Null \/ Le(v, Zero)

\* C11 (as claimed): a buy whose quantity is zero, negative or absent is a
\* no-op: it adds no lot and leaves the position's quantity, cost_basis,
\* avg_cost and realized_pnl as they were.
C11_NonPositiveBuyIsNoOp ==
  [][(Handles("buy") /\ NonPositive(CurTx.quantity)) =>
       /\ Post.lots = Pre.lots
       /\ Post.quantity = Pre.quantity
       /\ Post.cost_basis = Pre.cost_basis
       /\ Post.avg_cost = Pre.avg_cost
       /\ Post.realized_pnl = Pre.realized_pnl]_vars

\* the units a sell of q takes from lots: q, capped at what the lots hold
UnitsSold(lots, q) == IF Gt(q, Zero) THEN MinNum(q, SumQuantity(lots)) ELSE Zero

\* C12: a sell adds soldQuantity * price - fee - consumedCost to the
\* position's realized_pnl and takes soldQuantity off its quantity and
\* consumedCost off its cost_basis, where soldQuantity is the units taken
\* from the lots and consumedCost is what they cost, front lot first.
C12_SellRealizesPnl ==
  [][Handles("sell") =>
       LET q == Requested(CurTx)
           soldQuantity == UnitsSold(Pre.lots, q)
           consumedCost == FrontCost(Pre.lots, q)
           price == ValueOf(CurTx.price)
           fee == ValueOf(CurTx.fee)
       IN  /\ Post.realized_pnl =
                Add(Pre.realized_pnl,
                    Sub(Sub(Mul(soldQuantity, price), fee), consumedCost))
           /\ Post.quantity = Sub(Pre.quantity, soldQuantity)
           /\ Post.cost_basis = Sub(Pre.cost_basis, consumedCost)]_vars

\* C12 witness: on a position of 10 @ 100 a sell of 15 @ 150 with fee 5 has
\* sold 10 units that cost 1000 and realized 10 * 150 - 5 - 1000 = 495.
C12_Witness ==
  /\ JustRan("sell")
  /\ PrevTx.quantity = Num(15) /\ PrevTx.price = Num(150) /\ PrevTx.fee = Num(5)
  /\ last.soldQuantity = Num(10)
  /\ last.totalCost = Num(1000)
  /\ PrevPosition.realized_pnl = Num(495)
  /\ PrevPosition.quantity = Zero
  /\ PrevPosition.cost_basis = Zero

\* avg_cost of a position or holding is cost_basis / quantity when its
\* quantity is above 0, and 0 otherwise
AvgCostIsRatio(p) ==
  p.avg_cost = IF Gt(p.quantity, Zero) THEN Div(p.cost_basis, p.quantity) ELSE Zero

\* C13 (as claimed): at every point of the replay, so after every applied
\* transaction, a split or a buy on a position of quantity 0 included, and
\* in every returned holding, avg_cost is cost_basis / quantity when the
\* quantity is above 0 and 0 otherwise.
C13_AvgCostIsRatioOrZero ==
  /\ \A k \in DOMAIN positions : AvgCostIsRatio(positions[k])
  /\ \A h \in DOMAIN holdings : AvgCostIsRatio(holdings[h])

\* C14 (as claimed): a split whose ratio is absent or zero is the identity
\* on the position (lots, quantity, cost_basis, avg_cost and realized_pnl
\* stay as they were), whatever the position's state, quantity 0 included.
C14_SplitWithoutRatioIsIdentity ==
  [][(Handles("split") /\ CurTx.quantity \in {Null, Zero}) => Post = Pre]_vars

\* the transaction names an asset the lookup holds
NamesKnownAsset(tx) == tx.asset_id # "" /\ tx.asset_id \in DOMAIN assets

\* txs without the transactions that name no asset or an unknown one
RECURSIVE OfKnownAssets(_)
OfKnownAssets(txs) ==
  IF txs = <<>> THEN <<>>
  ELSE (IF NamesKnownAsset(Head(txs)) THEN <<Head(txs)>> ELSE <<>>)
         \o OfKnownAssets(Tail(txs))

\* C15: a transaction whose asset_id is empty, or whose asset the lookup
\* does not hold, is skipped: no position is ever created for it, no
\* returned holding has an asset_id outside the lookup, and the returned
\* holdings are those of the list without such transactions.
C15_UnknownAssetsAreSkipped ==
  /\ \A k \in DOMAIN positions :
       positions[k].asset_id # "" /\ positions[k].asset_id \in DOMAIN assets
  /\ (pc = "loop" /\ i > 1 /\ ~NamesKnownAsset(PrevTx)) => last.op = "skip"
  /\ pc = "done" =>
       /\ \A h \in DOMAIN holdings : holdings[h].asset_id \in DOMAIN assets
       /\ HoldingSet(ComputeHoldings(OfKnownAssets(transactions), assets))
            = HoldingSet(holdings)

\* C15 witness: the call has returned a holding on a list that holds a
\* transaction of an unknown asset or of none.
C15_Witness ==
  /\ pc = "done"
  /\ holdings # <<>>
  /\ \E k \in DOMAIN transactions : transactions[k].asset_id = "X"
  /\ \E k \in DOMAIN transactions : transactions[k].asset_id = ""

\* the types the engine replays without effect on lots
IncomeTypes == {"dividend", "fee", "interest"}

\* txs without its dividend, fee and interest transactions
RECURSIVE WithoutIncome(_)
WithoutIncome(txs) ==
  IF txs = <<>> THEN <<>>
  ELSE (IF Head(txs).type \in IncomeTypes THEN <<>> ELSE <<Head(txs)>>)
         \o WithoutIncome(Tail(txs))

\* C16: a dividend, fee or interest transaction leaves every field of the
\* position it is applied to as it was, and the returned holdings are those
\* of the list without such transactions, wherever they stand in it.
C16_IncomeTypesHaveNoEffect ==
  /\ [][\A type \in IncomeTypes : Handles(type) => Post = Pre]_vars
  /\ [](pc = "done" =>
          HoldingSet(ComputeHoldings(WithoutIncome(transactions), assets))
            = HoldingSet(holdings))

\* C16 witness: the call has returned a holding on a list in which a fee, a
\* dividend or an interest transaction of the asset stands between a buy
\* and a later transaction of it.
C16_Witness ==
  /\ pc = "done"
  /\ holdings # <<>>
  /\ \E a, b, c \in DOMAIN sortedTx :
       /\ a < b /\ b < c
       /\ sortedTx[a].type = "buy" /\ sortedTx[a].quantity = Num(10)
       /\ sortedTx[b].type = "fee" /\ sortedTx[b].asset_id = "A"
       /\ sortedTx[c].type = "sell" /\ sortedTx[c].quantity = Num(4)
       /\ sortedTx[a].asset_id = "A" /\ sortedTx[c].asset_id = "A"

\* C18: no step of computeHoldings changes its arguments: the caller's
\* transaction list keeps its order and every field of every transaction,
\* and the asset lookup stays as it was.
C18_ArgumentsUnchanged ==
  [][transactions' = transactions /\ assets' = assets]_vars

\* C18 witness: the call has returned a holding after a sort that put the
\* transactions in another order than the caller's list has them, a buy, a
\* split and a sell.
C18_Witness ==
  /\ pc = "done"
  /\ holdings # <<>>
  /\ sortedTx # transactions
  /\ \E a, b, c \in DOMAIN sortedTx :
       /\ a < b /\ b < c
       /\ sortedTx[a].type = "buy" /\ sortedTx[a].quantity = Num(10)
       /\ sortedTx[b].type = "split" /\ sortedTx[b].quantity = Num(2)
       /\ sortedTx[c].type = "sell" /\ sortedTx[c].quantity = Num(4)
       /\ {sortedTx[a].asset_id, sortedTx[b].asset_id, sortedTx[c].asset_id} = {"A"}

\* the steps a call has left before it has returned: the sort, one per
\* transaction not yet replayed, and the return
StepsLeft ==
  CASE pc = "start" -> Len(transactions) + 2
    [] pc = "loop" -> Len(sortedTx) + 2 - i
    [] OTHER -> 0

\* the call has a next step to take: the sort, the return, or the branch of
\* the loop the next transaction falls to
CanStep ==
  \/ pc = "start"
  \/ pc = "loop" /\ i > Len(sortedTx)
  \/ InLoop /\ Skipped(positions, assets, CurTx)
  \/ Handles("buy") \/ Handles("sell") \/ Handles("split")
  \/ InLoop /\ ~Skipped(positions, assets, CurTx)
       /\ CurTx.type \notin {"buy", "sell", "split"}

\* C19: every call of computeHoldings returns a list, whatever finite list
\* it is given (sells that meet no lots, over-sells, zero and negative
\* quantities, unknown assets): a call that has not returned has a next
\* step, every step leaves one step fewer, and no steps are left exactly
\* when it has returned.  The while loop of a sell makes at most one pass
\* per lot held, each pass but the last removing the front lot, and ends
\* with nothing left to sell or no lot left.
C19_CallReturns ==
  /\ [](StepsLeft >= 0 /\ (StepsLeft = 0 <=> pc = "done"))
  /\ [](pc # "done" => CanStep)
  /\ [](pc = "done" => holdings = ComputeHoldings(transactions, assets))
  /\ [][StepsLeft' < StepsLeft]_vars
  /\ [][Handles("sell") =>
          /\ last'.iterations <= Len(Pre.lots)
          /\ last'.iterations >= Len(Pre.lots) - Len(Post.lots)
          /\ last'.iterations <= Len(Pre.lots) - Len(Post.lots) + 1
          /\ \/ Post.lots = <<>>
             \/ ~Gt(Sub(Requested(CurTx), last'.soldQuantity), Zero)]_vars

\* C19 witness: the call has returned on a list whose first replayed
\* transaction is a sell that met no lots, followed by a buy of a negative
\* quantity and a transaction of an unknown asset.
C19_Witness ==
  /\ pc = "done"
  /\ Len(sortedTx) = 3
  /\ sortedTx[1].type = "sell" /\ sortedTx[1].asset_id = "A"
  /\ sortedTx[1].quantity = Num(15)
  /\ sortedTx[2].type = "buy" /\ sortedTx[2].quantity = Num(-5)
  /\ sortedTx[3].asset_id = "X"

\* what a transaction adds to the invested amount as the claim has it: a
\* standalone fee counts its amount whenever the amount is present
ClaimedInvested(tx) ==
  LET q == ValueOf(tx.quantity)
      p == ValueOf(tx.price)
      f == ValueOf(tx.fee)
  IN  CASE tx.type = "buy" -> Add(Mul(q, p), f)
        [] tx.type = "sell" -> Neg(Sub(Mul(q, p), f))
        [] tx.type = "fee" -> IF Amount(tx) # Null THEN Amount(tx) ELSE f
        [] OTHER -> Zero

\* the same, a standalone fee counting its amount when the amount is
\* present and not 0
AmendedInvested(tx) ==
  IF tx.type = "fee" /\ Amount(tx) = Zero THEN ValueOf(tx.fee)
  ELSE ClaimedInvested(tx)

RECURSIVE SumClaimedInvested(_)
SumClaimedInvested(txs) ==
  IF txs = <<>> THEN Zero
  ELSE Add(ClaimedInvested(Head(txs)), SumClaimedInvested(Tail(txs)))

RECURSIVE SumAmendedInvested(_)
SumAmendedInvested(txs) ==
  IF txs = <<>> THEN Zero
  ELSE Add(AmendedInvested(Head(txs)), SumAmendedInvested(Tail(txs)))

\* C20 (as claimed): computeInvestedAmount returns the sum over the list of
\* + (quantity * price + fee) for a buy, - (quantity * price - fee) for a
\* sell, + amount for a standalone fee whose amount is present and + its
\* fee field otherwise, and 0 for every other type.
C20_InvestedIsSum ==
  pc = "invested" => invested = SumClaimedInvested(transactions)

\* C20 (amended): the same sum, a standalone fee counting + amount when its
\* amount is present and not 0 and + its fee field otherwise.
C20_InvestedIsSumNonZeroAmount ==
  pc = "invested" =>
    /\ invested = SumAmendedInvested(transactions)
    /\ invested = ComputeInvestedAmount(transactions)

\* C20 witness: the total has been returned for a list with a buy, a sell
\* and a standalone fee whose amount 7 is counted in place of its fee 5:
\* 1020 - (600 - 5) + 7 = 432.
C20_Witness ==
  /\ pc = "invested"
  /\ Len(transactions) = 3
  /\ transactions[1].type = "buy" /\ transactions[1].quantity = Num(10)
  /\ transactions[2].type = "sell" /\ transactions[2].price = Num(150)
  /\ transactions[3].type = "fee" /\ Amount(transactions[3]) = Num(7)
  /\ transactions[3].fee = Num(5)
  /\ invested = Num(432)

\* C21: computeInvestedAmount gives one result for every order of its
\* input: the total returned for the list equals the total of each of its
\* permutations.
C21_InvestedAnyOrder ==
  pc = "invested" =>
    \A txs \in Reorderings(transactions) :
      ComputeInvestedAmount(txs) = invested

\* C21 witness: the total has been returned for a list of a sell, a
\* standalone fee and a buy that has other orders, the sell standing first.
C21_Witness ==
  /\ pc = "invested"
  /\ Len(transactions) = 3
  /\ transactions[1].type = "sell" /\ transactions[1].price = Num(150)
  /\ transactions[2].type = "fee" /\ Amount(transactions[2]) = Num(7)
  /\ transactions[3].type = "buy" /\ transactions[3].quantity = Num(10)
  /\ invested = Num(432)
  /\ Cardinality(Reorderings(transactions)) = 6

\* txs without the transactions whose id is in ids
RECURSIVE Without(_, _)
Without(txs, ids) ==
  IF txs = <<>> THEN <<>>
  ELSE (IF Head(txs).id \in ids THEN <<>> ELSE <<Head(txs)>>)
         \o Without(Tail(txs), ids)

\* the replay up to the last two transactions
BeforeLastTwo == SubSeq(sortedTx, 1, Len(sortedTx) - 2)

\* the last two transactions replayed are a sell of all that a position
\* holds and a buy of the same quantity of the asset, at a price at which
\* none of the asset was bought before
SellOutAndRebuy ==
  /\ Len(sortedTx) >= 3
  /\ LET s == sortedTx[Len(sortedTx) - 1]
         b == sortedTx[Len(sortedTx)]
         before == Replay(<<>>, assets, BeforeLastTwo)
     IN  /\ s.type = "sell" /\ b.type = "buy"
         /\ s.asset_id = b.asset_id
         /\ HasPosition(before, s.asset_id)
         /\ s.quantity # Null /\ Gt(s.quantity, Zero)
         /\ before[IndexOf(before, s.asset_id)].quantity = s.quantity
         /\ b.quantity = s.quantity
         /\ \A k \in DOMAIN BeforeLastTwo :
              (BeforeLastTwo[k].type = "buy"
                 /\ BeforeLastTwo[k].asset_id = b.asset_id)
                => BeforeLastTwo[k].price # b.price

\* what computeInvestedAmount gave before the sell
InvestedBeforeSell ==
  ComputeInvestedAmount(
    Without(transactions,
            {sortedTx[Len(sortedTx) - 1].id, sortedTx[Len(sortedTx)].id}))

PositionAfter(txs, asset_id) ==
  LET ps == Replay(<<>>, assets, txs)
  IN  ps[IndexOf(ps, asset_id)]

\* the c-th transaction replayed is a sell that brought a position held
\* until then down to quantity 0
ClosedAt(c) ==
  /\ sortedTx[c].type = "sell"
  /\ NamesKnownAsset(sortedTx[c])
  /\ HasPosition(Replay(<<>>, assets, SubSeq(sortedTx, 1, c - 1)),
                 sortedTx[c].asset_id)
  /\ Gt(PositionAfter(SubSeq(sortedTx, 1, c - 1), sortedTx[c].asset_id).quantity,
        Zero)
  /\ PositionAfter(SubSeq(sortedTx, 1, c), sortedTx[c].asset_id).quantity = Zero

\* a position closed at c is reported, so a later buy has opened it again
ReopenedAfter(c) ==
  /\ ClosedAt(c)
  /\ \E h \in DOMAIN holdings : holdings[h].asset_id = sortedTx[c].asset_id

\* C23 (as claimed): a position sold down to 0 and opened again by a later
\* buy is one record throughout: the realized_pnl of the returned holding
\* is that of the sells up to the close plus that of the sells after it,
\* and its lots, quantity and cost_basis are those the transactions after
\* the close alone give.
C23_ReopenedPositionKeepsPnl ==
  pc = "done" =>
    \A c \in 1..(Len(sortedTx) - 1) :
      ReopenedAfter(c) =>
        LET a == sortedTx[c].asset_id
            closed == PositionAfter(SubSeq(sortedTx, 1, c), a)
            after == PositionAfter(SubSeq(sortedTx, c + 1, Len(sortedTx)), a)
            final == positions[IndexOf(positions, a)]
            h == HoldingOf(holdings, a)
        IN  /\ h.realized_pnl = Add(closed.realized_pnl, after.realized_pnl)
            /\ final.lots = after.lots
            /\ h.quantity = after.quantity
            /\ h.cost_basis = after.cost_basis

\* the transactions of txs that name asset_id
RECURSIVE OfAsset(_, _)
OfAsset(txs, asset_id) ==
  IF txs = <<>> THEN <<>>
  ELSE (IF Head(txs).asset_id = asset_id THEN <<Head(txs)>> ELSE <<>>)
         \o OfAsset(Tail(txs), asset_id)

\* C24: the holding reported for an asset is the one computeHoldings gives
\* for the asset's own transactions alone (and none is reported when these
\* alone give none), so no transaction of another asset, of an unknown
\* asset or without asset_id has a part in it.
C24_HoldingFromOwnTransactions ==
  pc = "done" =>
    \A a \in DOMAIN assets :
      HoldingSet(ComputeHoldings(OfAsset(transactions, a), assets))
        = {h \in HoldingSet(holdings) : h.asset_id = a}

\* C24 witness: the call has returned holdings of two assets, one of them
\* with a sell behind it, or one holding on a list that also has a
\* transaction of an unknown asset and one without asset_id.
C24_Witness ==
  /\ pc = "done"
  /\ \/ /\ Len(holdings) = 2
        /\ \E h \in DOMAIN holdings : holdings[h].realized_pnl # Zero
     \/ /\ Len(holdings) = 1
        /\ \E k \in DOMAIN transactions : transactions[k].asset_id = "X"
        /\ \E k \in DOMAIN transactions : transactions[k].asset_id = ""

\* the transactions replayed so far
Applied ==
  IF pc = "start" THEN <<>>
  ELSE SubSeq(sortedTx, 1, IF pc = "loop" THEN i - 1 ELSE Len(sortedTx))

\* the lots the position of asset_id holds after the replay of txs
LotsAfter(txs, asset_id) ==
  LET ps == Replay(<<>>, assets, txs)
  IN  IF HasPosition(ps, asset_id) THEN ps[IndexOf(ps, asset_id)].lots ELSE <<>>

\* quantity * price + fee over the buys of asset_id in txs
RECURSIVE BoughtCost(_, _)
BoughtCost(txs, asset_id) ==
  IF txs = <<>> THEN Zero
  ELSE LET tx == txs[Len(txs)]
           rest == BoughtCost(SubSeq(txs, 1, Len(txs) - 1), asset_id)
       IN  IF tx.type = "buy" /\ tx.asset_id = asset_id
           THEN Add(rest, Add(Mul(ValueOf(tx.quantity), ValueOf(tx.price)),
                              ValueOf(tx.fee)))
           ELSE rest

\* the cost of the units the sells of asset_id in txs took, each from the
\* lots held when it was applied
RECURSIVE ConsumedCost(_, _)
ConsumedCost(txs, asset_id) ==
  IF txs = <<>> THEN Zero
  ELSE LET tx == txs[Len(txs)]
           before == SubSeq(txs, 1, Len(txs) - 1)
           rest == ConsumedCost(before, asset_id)
       IN  IF tx.type = "sell" /\ tx.asset_id = asset_id
           THEN Add(rest, FrontCost(LotsAfter(before, asset_id), Requested(tx)))
           ELSE rest

\* soldQuantity * price - fee over the sells of asset_id in txs
RECURSIVE SoldProceeds(_, _)
SoldProceeds(txs, asset_id) ==
  IF txs = <<>> THEN Zero
  ELSE LET tx == txs[Len(txs)]
           before == SubSeq(txs, 1, Len(txs) - 1)
           rest == SoldProceeds(before, asset_id)
       IN  IF tx.type = "sell" /\ tx.asset_id = asset_id
           THEN Add(rest,
                    Sub(Mul(UnitsSold(LotsAfter(before, asset_id), Requested(tx)),
                            ValueOf(tx.price)),
                        ValueOf(tx.fee)))
           ELSE rest

\* every buy of the input has a quantity above 0
BuysArePositive ==
  \A k \in DOMAIN transactions :
    transactions[k].type = "buy" =>
      transactions[k].quantity # Null /\ Gt(transactions[k].quantity, Zero)

\* C25: on inputs whose buys have quantity > 0, at every point of the
\* replay the cost of a position's buys so far (quantity * price + fee)
\* equals its cost_basis plus the cost its sells so far consumed, and its
\* realized_pnl equals the proceeds of those sells (soldQuantity * price -
\* fee) less the cost of the buys that is no longer in the cost_basis.
C25_CostIsConserved ==
  BuysArePositive =>
    \A k \in DOMAIN positions :
      LET p == positions[k]
          bought == BoughtCost(Applied, p.asset_id)
      IN  /\ bought = Add(p.cost_basis, ConsumedCost(Applied, p.asset_id))
          /\ p.realized_pnl
               = Sub(SoldProceeds(Applied, p.asset_id), Sub(bought, p.cost_basis))

\* C25 witness: a position bought twice, one buy with a fee, and split has
\* just been sold from a second time.
C25_Witness ==
  /\ BuysArePositive
  /\ JustRan("sell")
  /\ Lt(Zero, last.soldQuantity)
  /\ \E a, b \in 1..(i - 2) :
       /\ a < b
       /\ sortedTx[a].type = "buy" /\ sortedTx[a].asset_id = PrevTx.asset_id
       /\ sortedTx[b].type \in {"sell", "split"}
       /\ sortedTx[b].asset_id = PrevTx.asset_id
  /\ PrevPosition.realized_pnl # Zero

\* the sum of cost_basis over the holdings hs
RECURSIVE SumCostBasis(_)
SumCostBasis(hs) ==
  IF hs = <<>> THEN Zero
  ELSE Add(SumCostBasis(SubSeq(hs, 1, Len(hs) - 1)), hs[Len(hs)].cost_basis)

\* the list holds buys of quantity > 0 of assets of the lookup, and splits
OnlyBuysAndSplits ==
  /\ BuysArePositive
  /\ \A k \in DOMAIN transactions :
       /\ transactions[k].type \in {"buy", "split"}
       /\ transactions[k].type = "buy" => NamesKnownAsset(transactions[k])

\* C26: on a list of buys of quantity > 0 of assets of the lookup, with or
\* without splits among them, the cost_basis of the holdings computeHoldings
\* returns adds up to what computeInvestedAmount returns for the list.
C26_CostBasisAddsUpToInvested ==
  (pc = "invested" /\ OnlyBuysAndSplits) => SumCostBasis(holdings) = invested

\* C26 witness: both functions have returned on a list of a buy of A with
\* a fee, a split of A and a buy of B: 1520 + 1000.
C26_Witness ==
  /\ pc = "invested"
  /\ OnlyBuysAndSplits
  /\ Len(holdings) = 2
  /\ \E k \in DOMAIN sortedTx : k > 1 /\ sortedTx[k].type = "split"
                                /\ sortedTx[k - 1].asset_id = sortedTx[k].asset_id
                                /\ sortedTx[k - 1].fee = Num(20)
  /\ invested = Num(2520)

----------------------------------------------------------------------------
(* pages/Investments.tsx: the effect that calls loadData, and loadData.    *)
(* What a load fetched is written as the index of the load in loads; 0 is  *)
(* the initial empty list of useState.                                     *)

\* Most loadData calls of one page.
MaxLoads == 3

\* the values of selectedAccountId: no filter, or one of two accounts
AccountIds == {"undefined", "acc1", "acc2"}

\* Investments.tsx:81-82: a call of loadData, up to its first await
StartLoad(accountId) ==
  /\ loads' = Append(loads, [accountId |-> accountId, stage |-> "fetching"])
  /\ pageState' = [pageState EXCEPT !.loading = TRUE]

\* Investments.tsx:54-58, first run of the effect
Mount ==
  /\ loads = <<>>
  /\ StartLoad(selectedAccountId)
  /\ UNCHANGED <<selectedAccountId, holdingsVars, authVars, saveVars, mergeVars>>

\* Investments.tsx:237 and 54-58: the filter changes, the effect runs again
OnAccountChange ==
  /\ loads # <<>>
  /\ Len(loads) < MaxLoads
  /\ \E accountId \in AccountIds \ {selectedAccountId} :
       /\ selectedAccountId' = accountId
       /\ StartLoad(accountId)
  /\ UNCHANGED <<holdingsVars, authVars, saveVars, mergeVars>>

\* Investments.tsx:208 and 54-58: refreshTrigger changes, the effect runs again
Refresh ==
  /\ loads # <<>>
  /\ Len(loads) < MaxLoads
  /\ StartLoad(selectedAccountId)
  /\ UNCHANGED <<selectedAccountId, holdingsVars, authVars, saveVars, mergeVars>>

\* Investments.tsx:85-151: Promise.all resolves for load k
FetchResolves ==
  /\ \E k \in DOMAIN loads :
       /\ loads[k].stage = "fetching"
       /\ loads' = [loads EXCEPT ![k].stage = "enriching"]
       /\ pageState' = [pageState EXCEPT !.transactions = k,
                                         !.fetchingPrices = TRUE]
  /\ UNCHANGED <<selectedAccountId, holdingsVars, authVars, saveVars, mergeVars>>

\* Investments.tsx:152-158: an await of load k rejects
Rejects(stage) ==
  /\ \E k \in DOMAIN loads :
       /\ loads[k].stage = stage
       /\ loads' = [loads EXCEPT ![k].stage = "failed"]
       /\ pageState' = [pageState EXCEPT !.loading = FALSE]
  /\ UNCHANGED <<selectedAccountId, holdingsVars, authVars, saveVars, mergeVars>>

FetchRejects == Rejects("fetching")

EnrichRejects == Rejects("enriching")

\* Investments.tsx:144-151 and 156-158: enrichHoldingsWithPrices resolves
EnrichResolves ==
  /\ \E k \in DOMAIN loads :
       /\ loads[k].stage = "enriching"
       /\ loads' = [loads EXCEPT ![k].stage = "done"]
       /\ pageState' = [pageState EXCEPT !.enrichedHoldings = k,
                                         !.fetchingPrices = FALSE,
                                         !.loading = FALSE]
  /\ UNCHANGED <<selectedAccountId, holdingsVars, authVars, saveVars, mergeVars>>

\* the variables of holdings.ts when no call is under way
HoldingsIdle ==
  /\ transactions = <<>>
  /\ assets = CHOOSE as \in AssetMaps : TRUE
  /\ sortedTx = <<>>
  /\ i = 0
  /\ positions = <<>>
  /\ last = NoLocals
  /\ holdings = <<>>
  /\ pc = "idle"
  /\ invested = Zero

InitLoad ==
  /\ HoldingsIdle
  /\ AuthIdle
  /\ SaveIdle
  /\ MergeIdle
  /\ PageIdle

NextLoad ==
  \/ Mount
  \/ OnAccountChange
  \/ Refresh
  \/ FetchResolves
  \/ FetchRejects
  \/ EnrichResolves
  \/ EnrichRejects

SpecLoad == InitLoad /\ [][NextLoad]_vars

\* every loadData call started has run to its end without an error
AllLoadsDone ==
  /\ loads # <<>>
  /\ \A k \in DOMAIN loads : loads[k].stage = "done"

\* the account whose data load k asked for; load 0 is the initial state
AccountOf(k) == IF k = 0 THEN "none" ELSE loads[k].accountId

\* C27: once every loadData call has completed, the transactions and the
\* enrichedHoldings on display are those of the account selected last, that
\* is of the load started last, whatever the order of completion.
C27_ShowsLatestLoad ==
  AllLoadsDone =>
    /\ AccountOf(pageState.transactions) = selectedAccountId
    /\ AccountOf(pageState.enrichedHoldings) = selectedAccountId

----------------------------------------------------------------------------
(* Splitwise OAuth: startSplitwiseAuth and handleSplitwiseCallback, called *)
(* by the SplitwiseCallback component.  One JavaScript thread: the code    *)
(* between two awaits is one step.                                         *)

\* Most handleSplitwiseCallback invocations of one session.
MaxCallbacks == 3

\* the values generateState can return (two of its 2^128)
StateValues == {"s1", "s2"}

\* state parameters a callback URL can carry: a generated one or a forged one
UrlStates == StateValues \cup {"forged"}

\* the authorization code a callback URL carries
Codes == {"code1"}

InvalidState == "Invalid state parameter (CSRF protection)"

\* mutant: the saved state is left in place by a callback that passes
ValidateKeepsState(storedState, state) ==
  IF storedState = NoItem \/ state # storedState
    THEN [passed |-> FALSE, stored |-> storedState]
    ELSE [passed |-> TRUE, stored |-> storedState]

\* handleSplitwiseCallback up to the fetch: getItem, the comparison and
\* removeItem; stored is the item afterwards
Validate(storedState, state) ==
  IF storedState = NoItem \/ state # storedState
    THEN [passed |-> FALSE, stored |-> storedState]
    ELSE [passed |-> TRUE, stored |-> NoItem]

\* startSplitwiseAuth: a new state is generated and saved
StartSplitwiseAuth ==
  /\ Len(generated) < MaxCallbacks
  /\ \E state \in StateValues :
       /\ generated' = Append(generated, state)
       /\ sessionStorage' = state
  /\ UNCHANGED <<tokens, callbacks, holdingsVars, pageVars, saveVars, mergeVars>>

\* an invocation that has returned result
Returned(c, success, error) ==
  [c EXCEPT !.at = "returned", !.success = success, !.error = error]

\* SplitwiseCallback.tsx:36 and the synchronous start of
\* handleSplitwiseCallback: the state is checked and, if it passes, removed
CallbackStarts ==
  /\ Len(callbacks) < MaxCallbacks
  /\ \E code \in Codes, state \in UrlStates :
       LET v == Validate(sessionStorage, state)
           c == [code |-> code, state |-> state, passed |-> v.passed,
                 start |-> Len(generated), at |-> "exchanging",
                 success |-> FALSE, error |-> ""]
       IN  /\ sessionStorage' = v.stored
           /\ callbacks' = Append(callbacks,
                                  IF v.passed THEN c
                                  ELSE Returned(c, FALSE, InvalidState))
  /\ UNCHANGED <<tokens, generated, holdingsVars, pageVars, saveVars, mergeVars>>

\* the invocation k is waiting at the await of step at
Waiting(k, at) == k \in DOMAIN callbacks /\ callbacks[k].at = at

\* the fetch rejects, or the response is not ok, or it has no access_token
ExchangeFails ==
  /\ \E k \in DOMAIN callbacks :
       /\ Waiting(k, "exchanging")
       /\ \E error \in {"invalid_grant", "No access token in response"} :
            callbacks' = [callbacks EXCEPT ![k] = Returned(@, FALSE, error)]
  /\ UNCHANGED <<sessionStorage, tokens, generated, holdingsVars, pageVars,
                 saveVars, mergeVars>>

\* the response carries an access_token: storeTokens is called
ExchangeSucceeds ==
  /\ \E k \in DOMAIN callbacks :
       /\ Waiting(k, "exchanging")
       /\ callbacks' = [callbacks EXCEPT ![k].at = "storing"]
  /\ UNCHANGED <<sessionStorage, tokens, generated, holdingsVars, pageVars,
                 saveVars, mergeVars>>

\* storeTokens resolves
StoreTokens ==
  /\ \E k \in DOMAIN callbacks :
       /\ Waiting(k, "storing")
       /\ tokens' = Append(tokens, [callback |-> k, code |-> callbacks[k].code])
       /\ callbacks' = [callbacks EXCEPT ![k] = Returned(@, TRUE, "")]
  /\ UNCHANGED <<sessionStorage, generated, holdingsVars, pageVars, saveVars,
                 mergeVars>>

\* storeTokens rejects: the catch returns the error
StoreTokensFails ==
  /\ \E k \in DOMAIN callbacks :
       /\ Waiting(k, "storing")
       /\ callbacks' = [callbacks EXCEPT ![k] = Returned(@, FALSE, "Unknown error")]
  /\ UNCHANGED <<sessionStorage, tokens, generated, holdingsVars, pageVars,
                 saveVars, mergeVars>>

InitAuth ==
  /\ HoldingsIdle
  /\ PageIdle
  /\ SaveIdle
  /\ MergeIdle
  /\ AuthIdle

NextAuth ==
  \/ StartSplitwiseAuth
  \/ CallbackStarts
  \/ ExchangeFails
  \/ ExchangeSucceeds
  \/ StoreTokens
  \/ StoreTokensFails

SpecAuth == InitAuth /\ [][NextAuth]_vars

\* the invocations that passed validation against the state of start n
PassedFor(n) == {k \in DOMAIN callbacks : callbacks[k].passed /\ callbacks[k].start = n}

\* C28: a callback passes validation only with the state saved by the latest
\* startSplitwiseAuth, at most one invocation passes per startSplitwiseAuth
\* (whatever became of its exchange), tokens are stored only by invocations
\* that passed, and every invocation that did not pass has returned
\* success = false with the invalid-state error; the saved state is gone as
\* soon as an invocation has passed.
C28_StateIsSingleUse ==
  /\ \A n \in 0..Len(generated) : Cardinality(PassedFor(n)) <= 1
  /\ PassedFor(0) = {}
  /\ \A k \in DOMAIN callbacks :
       LET c == callbacks[k]
       IN  /\ c.passed => c.state = generated[c.start]
           /\ ~c.passed => /\ c.at = "returned"
                           /\ ~c.success
                           /\ c.error = InvalidState
           /\ c.success => c.passed
  /\ \A t \in DOMAIN tokens : callbacks[tokens[t].callback].passed
  /\ Len(tokens) <= Cardinality({k \in DOMAIN callbacks : callbacks[k].passed})
  /\ \A n \in 1..Len(generated) :
       (PassedFor(n) # {} /\ n = Len(generated)) => sessionStorage = NoItem

\* C28 witness: after one startSplitwiseAuth three invocations carried its
\* state; the first passed and its exchange failed, the others overlapped
\* it or came later and were turned away.
C28_Witness ==
  /\ Len(generated) = 1
  /\ Len(callbacks) = 3
  /\ \A k \in DOMAIN callbacks : callbacks[k].state = generated[1]
  /\ callbacks[1].passed /\ callbacks[1].at = "returned" /\ ~callbacks[1].success
  /\ ~callbacks[2].passed /\ ~callbacks[3].passed
  /\ tokens = <<>>

----------------------------------------------------------------------------
(* tokenStorage.ts: saveEquityHoldings and saveMFHoldings.  The two differ *)
(* in the asset type and in the price of the buy they write.               *)

\* Longest holdings list handed to a save.
MaxSave == 3

\* parsed holdings: one with an average price, one with a NAV only
ParsedHoldings ==
  {[sourceSymbol |-> "INFY", avgPrice |-> 250, nav |-> 0],
   [sourceSymbol |-> "TCS", avgPrice |-> 0, nav |-> 30]}

SaveLists(n) == [1..n -> ParsedHoldings]

\* a || b on numbers
OrNumber(a, b) == IF a = 0 THEN b ELSE a

\* tokenStorage.ts:723 and 789: the price of the buy
BuyPrice(kind, holding) ==
  IF kind = "equity" THEN OrNumber(holding.avgPrice, 1)
  ELSE OrNumber(holding.avgPrice, OrNumber(holding.nav, 1))

\* mutant: the catch records the error and does not count the failure
CaughtNotCounted(locals, holding, message) ==
  [locals EXCEPT !.errors = Append(@, <<holding.sourceSymbol, message>>),
                 !.k = @ + 1,
                 !.pc = "asset"]

\* tokenStorage.ts:735-739 and 801-805: the catch of one holding, then the
\* next element of the loop
Caught(locals, holding, message) ==
  [locals EXCEPT !.errors = Append(@, <<holding.sourceSymbol, message>>),
                 !.failed = @ + 1,
                 !.k = @ + 1,
                 !.pc = "asset"]

InSaveLoop(at) == save.pc = at /\ save.k <= Len(toSave)

\* tokenStorage.ts:703: ensurePortfolioAccount resolves
EnsureAccount ==
  /\ save.pc = "account"
  /\ save' = [save EXCEPT !.pc = "asset"]
  /\ UNCHANGED <<toSave, holdingsVars, pageVars, authVars, mergeVars>>

\* tokenStorage.ts:703 and 743-745: ensurePortfolioAccount rejects, the call throws
EnsureAccountFails ==
  /\ save.pc = "account"
  /\ save' = [save EXCEPT !.pc = "thrown"]
  /\ UNCHANGED <<toSave, holdingsVars, pageVars, authVars, mergeVars>>

\* onProgress is told the counts and the current item
Reported(locals, holding) ==
  [locals EXCEPT !.progress =
     Append(@, [completed |-> locals.completed, failed |-> locals.failed,
                currentItem |-> holding.sourceSymbol])]

\* tokenStorage.ts:707-721: onProgress, then the asset is ensured
EnsureAsset ==
  /\ InSaveLoop("asset")
  /\ save' = [Reported(save, toSave[save.k]) EXCEPT !.pc = "buy"]
  /\ UNCHANGED <<toSave, holdingsVars, pageVars, authVars, mergeVars>>

EnsureAssetFails ==
  /\ InSaveLoop("asset")
  /\ save' = Caught(Reported(save, toSave[save.k]), toSave[save.k],
                    "Failed to create asset")
  /\ UNCHANGED <<toSave, holdingsVars, pageVars, authVars, mergeVars>>

\* tokenStorage.ts:723-734: the buy is written
CreateBuyTransaction ==
  /\ InSaveLoop("buy")
  /\ save' = [save EXCEPT
                !.rows = Append(@, [symbol |-> toSave[save.k].sourceSymbol,
                                    price |-> BuyPrice(save.kind, toSave[save.k])]),
                !.completed = @ + 1,
                !.k = @ + 1,
                !.pc = "asset"]
  /\ UNCHANGED <<toSave, holdingsVars, pageVars, authVars, mergeVars>>

CreateBuyTransactionFails ==
  /\ InSaveLoop("buy")
  /\ save' = Caught(save, toSave[save.k], "insert failed")
  /\ UNCHANGED <<toSave, holdingsVars, pageVars, authVars, mergeVars>>

\* tokenStorage.ts:742: return { success: completed, failed, errors }
SaveReturns ==
  /\ save.pc = "asset"
  /\ save.k > Len(toSave)
  /\ save' = [save EXCEPT !.pc = "returned"]
  /\ UNCHANGED <<toSave, holdingsVars, pageVars, authVars, mergeVars>>

InitSave ==
  /\ HoldingsIdle
  /\ PageIdle
  /\ AuthIdle
  /\ MergeIdle
  /\ \E n \in 0..MaxSave : toSave \in SaveLists(n)
  /\ \E kind \in {"equity", "mf"} :
       save = [kind |-> kind, pc |-> "account", k |-> 1, completed |-> 0,
               failed |-> 0, errors |-> <<>>, rows |-> <<>>, progress |-> <<>>]

NextSave ==
  \/ EnsureAccount
  \/ EnsureAccountFails
  \/ EnsureAsset
  \/ EnsureAssetFails
  \/ CreateBuyTransaction
  \/ CreateBuyTransactionFails
  \/ SaveReturns

SpecSave == InitSave /\ [][NextSave]_vars

\* the source symbols of the first n holdings of the input
SymbolsUpTo(n) == [k \in 1..n |-> toSave[k].sourceSymbol]

\* the input positions whose holding went to the catch, in the order of errors
RECURSIVE MatchInOrder(_, _, _)
MatchInOrder(symbols, from, list) ==
  IF symbols = <<>> THEN TRUE
  ELSE \E k \in from..Len(list) :
         /\ list[k] = Head(symbols)
         /\ MatchInOrder(Tail(symbols), k + 1, list)

\* C29: once the portfolio account step has succeeded, the holdings are taken
\* one by one in input order, each exactly once whatever happened to the
\* ones before it; completed + failed counts the holdings dealt with, errors
\* has one entry per failure, naming failed holdings in input order, one row
\* is written per success; and on return all holdings have been dealt with.
C29_EveryHoldingOnce ==
  save.pc \in {"asset", "buy", "returned"} =>
    LET dealt == save.k - 1
        current == IF save.pc = "buy" THEN save.k ELSE dealt
    IN  /\ save.completed + save.failed = dealt
        /\ Len(save.errors) = save.failed
        /\ Len(save.rows) = save.completed
        /\ Len(save.progress) = current
        /\ [k \in 1..current |-> save.progress[k].currentItem] = SymbolsUpTo(current)
        /\ MatchInOrder([k \in 1..Len(save.errors) |-> save.errors[k][1]], 1,
                        SymbolsUpTo(dealt))
        /\ MatchInOrder([k \in 1..Len(save.rows) |-> save.rows[k].symbol], 1,
                        SymbolsUpTo(dealt))
        /\ save.pc = "returned" => dealt = Len(toSave)

\* C29 witness: a save of three holdings has returned; the first holding
\* failed at the asset, the second at the buy, the third was written.
C29_Witness ==
  /\ save.pc = "returned"
  /\ Len(toSave) = 3
  /\ save.failed = 2
  /\ save.completed = 1
  /\ save.errors[1][2] = "Failed to create asset"
  /\ save.errors[2][2] = "insert failed"
  /\ save.rows[1].symbol = toSave[3].sourceSymbol

----------------------------------------------------------------------------
(* mergeMonthlyCategoryTotals, with mapSplitwiseCategory and               *)
(* getCategoryBucketKey of splitwiseMap.ts.  A string is the sequence of   *)
(* its characters.  Objects live in heap and are held by reference (their  *)
(* index), so that a write through one reference is seen through all.     *)

\* Longest Splitwise expense list handed to the merge.
MaxExpenses == 3

UpperToLower ==
    "A" :> "a" @@ "B" :> "b" @@ "C" :> "c" @@ "D" :> "d" @@ "E" :> "e" @@
    "F" :> "f" @@ "G" :> "g" @@ "H" :> "h" @@ "I" :> "i" @@ "J" :> "j" @@
    "K" :> "k" @@ "L" :> "l" @@ "M" :> "m" @@ "N" :> "n" @@ "O" :> "o" @@
    "P" :> "p" @@ "Q" :> "q" @@ "R" :> "r" @@ "S" :> "s" @@ "T" :> "t" @@
    "U" :> "u" @@ "V" :> "v" @@ "W" :> "w" @@ "X" :> "x" @@ "Y" :> "y" @@
    "Z" :> "z"

\* String.prototype.toLowerCase
ToLowerCase(s) ==
  [k \in DOMAIN s |-> IF s[k] \in DOMAIN UpperToLower THEN UpperToLower[s[k]] ELSE s[k]]

IsSpace(c) == c = " "

\* String.prototype.trim
RECURSIVE Trim(_)
Trim(s) ==
  IF s = <<>> THEN s
  ELSE IF IsSpace(Head(s)) THEN Trim(Tail(s))
  ELSE IF IsSpace(s[Len(s)]) THEN Trim(SubSeq(s, 1, Len(s) - 1))
  ELSE s

\* String.prototype.includes
Includes(s, part) ==
  \E start \in 0..(Len(s) - Len(part)) :
    SubSeq(s, start + 1, start + Len(part)) = part

\* replace(/\s+/g, '_')
RECURSIVE SpacesToUnderscore(_)
SpacesToUnderscore(s) ==
  IF s = <<>> THEN s
  ELSE IF IsSpace(Head(s))
         THEN IF Len(s) > 1 /\ IsSpace(s[2])
                THEN SpacesToUnderscore(Tail(s))
                ELSE <<"_">> \o SpacesToUnderscore(Tail(s))
  ELSE <<Head(s)>> \o SpacesToUnderscore(Tail(s))

\* Array.prototype.find and some: the first of the indices that pass the
\* test, or 0
FindIndex(passing) ==
  IF passing = {} THEN 0
  ELSE CHOOSE k \in passing : \A j \in passing : k <= j

\* splitwiseMap.ts:40-49, in the order of Object.entries
commonMappings ==
  <<
     [localName |-> <<"g", "r", "o", "c", "e", "r", "i", "e", "s">>,
      aliases |-> <<<<"g", "r", "o", "c", "e", "r", "i", "e", "s">>,
                    <<"f", "o", "o", "d">>,
                    <<"g", "r", "o", "c", "e", "r", "y">>>>],
     [localName |-> <<"d", "i", "n", "i", "n", "g", " ", "o", "u", "t">>,
      aliases |-> <<<<"r", "e", "s", "t", "a", "u", "r", "a", "n", "t">>,
                    <<"d", "i", "n", "i", "n", "g">>,
                    <<"f", "o", "o", "d", " ", "a", "n", "d", " ", "d", "r", "i", "n", "k">>,
                    <<"d", "i", "n", "i", "n", "g", " ", "o", "u", "t">>>>],
     [localName |-> <<"e", "n", "t", "e", "r", "t", "a", "i", "n", "m", "e", "n", "t">>,
      aliases |-> <<<<"e", "n", "t", "e", "r", "t", "a", "i", "n", "m", "e", "n", "t">>,
                    <<"m", "o", "v", "i", "e", "s">>,
                    <<"g", "a", "m", "e", "s">>>>],
     [localName |-> <<"t", "r", "a", "n", "s", "p", "o", "r", "t", "a", "t", "i", "o", "n">>,
      aliases |-> <<<<"t", "r", "a", "n", "s", "p", "o", "r", "t", "a", "t", "i", "o", "n">>,
                    <<"c", "a", "r">>,
                    <<"g", "a", "s">>,
                    <<"t", "r", "a", "n", "s", "i", "t">>,
                    <<"t", "a", "x", "i">>,
                    <<"u", "b", "e", "r">>>>],
     [localName |-> <<"u", "t", "i", "l", "i", "t", "i", "e", "s">>,
      aliases |-> <<<<"u", "t", "i", "l", "i", "t", "i", "e", "s">>,
                    <<"e", "l", "e", "c", "t", "r", "i", "c", "i", "t", "y">>,
                    <<"g", "a", "s">>,
                    <<"w", "a", "t", "e", "r">>>>],
     [localName |-> <<"s", "h", "o", "p", "p", "i", "n", "g">>,
      aliases |-> <<<<"s", "h", "o", "p", "p", "i", "n", "g">>,
                    <<"g", "e", "n", "e", "r", "a", "l">>>>],
     [localName |-> <<"h", "e", "a", "l", "t", "h", "c", "a", "r", "e">>,
      aliases |-> <<<<"h", "e", "a", "l", "t", "h", "c", "a", "r", "e">>,
                    <<"m", "e", "d", "i", "c", "a", "l">>,
                    <<"p", "h", "a", "r", "m", "a", "c", "y">>>>],
     [localName |-> <<"t", "r", "a", "v", "e", "l">>,
      aliases |-> <<<<"t", "r", "a", "v", "e", "l">>,
                    <<"v", "a", "c", "a", "t", "i", "o", "n">>,
                    <<"h", "o", "t", "e", "l">>>>]
  >>

Real(category) ==
  [category_id |-> category.id, ui_name |-> category.name,
   color |-> category.color, is_virtual |-> FALSE]

\* splitwiseMap.ts:9-13 and 70-73
Virtual(splitwiseCategoryName) ==
  [category_id |-> <<>>,
   ui_name |-> splitwiseCategoryName \o <<" ", "(", "S", "p", "l", "i", "t", "w", "i", "s", "e", ")">>,
   color |-> "#10b981", is_virtual |-> TRUE]

\* splitwiseMap.ts:52-68: the fuzzy match from entry k of commonMappings on
RECURSIVE FuzzyFrom(_, _, _, _)
FuzzyFrom(k, normalized, splitwiseCategoryName, categories) ==
  IF k > Len(commonMappings) THEN Virtual(splitwiseCategoryName)
  ELSE
    LET entry == commonMappings[k]
        AliasIn(alias) == Includes(normalized, alias)
        NameHas(cat) == Includes(ToLowerCase(cat.name), entry.localName)
        matched == FindIndex({c \in DOMAIN categories : NameHas(categories[c])})
    IN  IF FindIndex({a \in DOMAIN entry.aliases : AliasIn(entry.aliases[a])}) # 0
           /\ matched # 0
          THEN Real(categories[matched])
          ELSE FuzzyFrom(k + 1, normalized, splitwiseCategoryName, categories)

\* splitwiseMap.ts:19-75
mapSplitwiseCategory(splitwiseCategoryName, categories) ==
  LET normalized == Trim(ToLowerCase(splitwiseCategoryName))
      SameName(cat) == Trim(ToLowerCase(cat.name)) = normalized
      match == FindIndex({c \in DOMAIN categories : SameName(categories[c])})
  IN  IF match # 0 THEN Real(categories[match])
      ELSE FuzzyFrom(1, normalized, splitwiseCategoryName, categories)

\* splitwiseMap.ts:79-81; an absent or empty category_id is falsy
getCategoryBucketKey(mapping) ==
  IF mapping.category_id # <<>> THEN mapping.category_id
  ELSE <<"s", "w", "_">> \o SpacesToUnderscore(ToLowerCase(mapping.ui_name))

\* Map.prototype.get: the reference stored under key, or 0
MapGet(map, key) ==
  IF \E k \in DOMAIN map : map[k][1] = key
    THEN map[CHOOSE k \in DOMAIN map : map[k][1] = key][2]
    ELSE 0

\* Map.prototype.set: a known key keeps its place
MapSet(map, key, ref) ==
  IF \E k \in DOMAIN map : map[k][1] = key
    THEN [k \in DOMAIN map |-> IF map[k][1] = key THEN <<key, ref>> ELSE map[k]]
    ELSE Append(map, <<key, ref>>)

\* { ...local, hasSplitwise: false, bucket_key: bucketKey }
Spread(local) ==
  [f \in DOMAIN local \cup {"hasSplitwise", "bucket_key"} |->
     IF f = "hasSplitwise" THEN FALSE
     ELSE IF f = "bucket_key" THEN local.category_id
     ELSE local[f]]

\* mutant: the fields are added to the local total itself, which is stored
LocalEntryShared(objects, ref) ==
  [heap |-> [objects EXCEPT ![ref] = Spread(objects[ref])], ref |-> ref]

\* part_000:25-29: the object stored for a local total is a new one
LocalEntry(objects, ref) ==
  [heap |-> Append(objects, Spread(objects[ref])), ref |-> Len(objects) + 1]

\* existing.splitwise_count || 0
SplitwiseCount(object) ==
  IF "splitwise_count" \in DOMAIN object THEN object.splitwise_count ELSE 0

\* part_000:42-45: the writes to existing
Credited(existing, swExpense) ==
  [f \in DOMAIN existing \cup {"splitwise_count"} |->
     IF f = "total_amount" THEN existing.total_amount + swExpense.user_owed_share
     ELSE IF f = "expense_count" THEN existing.expense_count + 1
     ELSE IF f = "hasSplitwise" THEN TRUE
     ELSE IF f = "splitwise_count" THEN SplitwiseCount(existing) + 1
     ELSE existing[f]]

\* part_000:48-58: the virtual category of an expense
NewBucket(mapping, bucketKey, swExpense) ==
  [category_id |-> IF mapping.category_id # <<>> THEN mapping.category_id
                   ELSE bucketKey,
   category_name |-> mapping.ui_name,
   category_color |-> mapping.color,
   total_amount |-> swExpense.user_owed_share,
   expense_count |-> 1,
   hasSplitwise |-> TRUE,
   splitwise_count |-> 1,
   bucket_key |-> bucketKey,
   mapping |-> mapping]

\* Array.prototype.sort with (a, b) => b.total_amount - a.total_amount:
\* stable, largest total first; refs are references into objects
RECURSIVE SortByTotalDesc(_, _)
SortByTotalDesc(objects, refs) ==
  IF refs = <<>> THEN refs
  ELSE LET rest == SortByTotalDesc(objects, SubSeq(refs, 1, Len(refs) - 1))
           x == refs[Len(refs)]
           before == {k \in DOMAIN rest :
                        objects[rest[k]].total_amount >= objects[x].total_amount}
           n == Cardinality(before)
       IN  SubSeq(rest, 1, n) \o <<x>> \o SubSeq(rest, n + 1, Len(rest))

\* the local categories of the user, and none
CategoryLists ==
  {<<>>,
   <<[id |-> <<"c", "1">>, name |-> <<"G", "r", "o", "c", "e", "r", "i", "e", "s">>, color |-> "#111"],
     [id |-> <<"c", "2">>, name |-> <<"E", "n", "t", "e", "r", "t", "a", "i", "n", "m", "e", "n", "t">>, color |-> "#222"]>>}

\* totals of the month by local category; c9 is a category since deleted
LocalTotalRows ==
  {[category_id |-> <<"c", "1">>, category_name |-> <<"G", "r", "o", "c", "e", "r", "i", "e", "s">>,
    category_color |-> "#111", total_amount |-> 250, expense_count |-> 3],
   [category_id |-> <<"c", "2">>, category_name |-> <<"E", "n", "t", "e", "r", "t", "a", "i", "n", "m", "e", "n", "t">>,
    category_color |-> "#222", total_amount |-> 300, expense_count |-> 1],
   [category_id |-> <<"c", "9">>, category_name |-> <<"O", "l", "d">>,
    category_color |-> "#999", total_amount |-> 120, expense_count |-> 2]}

\* normalized Splitwise expenses of the month
ExpenseRows ==
  {[category_name |-> <<"G", "r", "o", "c", "e", "r", "i", "e", "s", " ">>, user_owed_share |-> 50],
   [category_name |-> <<"M", "o", "v", "i", "e", "s">>, user_owed_share |-> 300],
   [category_name |-> <<"G", "e", "n", "e", "r", "a", "l">>, user_owed_share |-> 120],
   [category_name |-> <<"R", "e", "n", "t">>, user_owed_share |-> 700]}

InMergeLoop(at, list) == mergePc = at /\ mergeK <= Len(list)

\* part_000:23-30: one local total
AddLocal ==
  /\ InMergeLoop("locals", localTotals)
  /\ LET entry == LocalEntry(heap, localTotals[mergeK])
         bucketKey == heap[localTotals[mergeK]].category_id
     IN  /\ heap' = entry.heap
         /\ merged' = MapSet(merged, bucketKey, entry.ref)
  /\ mergeK' = mergeK + 1
  /\ UNCHANGED <<localTotals, splitwiseExpenses, localCategories, mergePc,
                 mergedTotals, holdingsVars, pageVars, authVars, saveVars>>

\* the first loop ends
LocalsDone ==
  /\ mergePc = "locals"
  /\ mergeK > Len(localTotals)
  /\ mergePc' = "splitwise"
  /\ mergeK' = 1
  /\ UNCHANGED <<heap, localTotals, splitwiseExpenses, localCategories, merged,
                 mergedTotals, holdingsVars, pageVars, authVars, saveVars>>

\* part_000:35-36
BucketKeyOf(swExpense) ==
  getCategoryBucketKey(mapSplitwiseCategory(swExpense.category_name,
                                            localCategories))

\* part_000:38-46: the expense goes to a bucket of the Map
AddToExisting ==
  /\ InMergeLoop("splitwise", splitwiseExpenses)
  /\ LET swExpense == splitwiseExpenses[mergeK]
         existing == MapGet(merged, BucketKeyOf(swExpense))
     IN  /\ existing # 0
         /\ heap' = [heap EXCEPT ![existing] = Credited(@, swExpense)]
  /\ mergeK' = mergeK + 1
  /\ UNCHANGED <<localTotals, splitwiseExpenses, localCategories, merged,
                 mergePc, mergedTotals, holdingsVars, pageVars, authVars,
                 saveVars>>

\* part_000:47-59: the expense opens a bucket
AddVirtual ==
  /\ InMergeLoop("splitwise", splitwiseExpenses)
  /\ LET swExpense == splitwiseExpenses[mergeK]
         mapping == mapSplitwiseCategory(swExpense.category_name, localCategories)
         bucketKey == getCategoryBucketKey(mapping)
     IN  /\ MapGet(merged, bucketKey) = 0
         /\ heap' = Append(heap, NewBucket(mapping, bucketKey, swExpense))
         /\ merged' = MapSet(merged, bucketKey, Len(heap) + 1)
  /\ mergeK' = mergeK + 1
  /\ UNCHANGED <<localTotals, splitwiseExpenses, localCategories, mergePc,
                 mergedTotals, holdingsVars, pageVars, authVars, saveVars>>

\* part_000:63: the sorted values are returned
SortAndReturn ==
  /\ mergePc = "splitwise"
  /\ mergeK > Len(splitwiseExpenses)
  /\ mergedTotals' = SortByTotalDesc(heap, [k \in DOMAIN merged |-> merged[k][2]])
  /\ mergePc' = "returned"
  /\ UNCHANGED <<heap, localTotals, splitwiseExpenses, localCategories, merged,
                 mergeK, holdingsVars, pageVars, authVars, saveVars>>

InitMerge ==
  /\ HoldingsIdle
  /\ PageIdle
  /\ AuthIdle
  /\ SaveIdle
  /\ \E n \in 0..2 : heap \in [1..n -> LocalTotalRows]
  /\ localTotals = [k \in DOMAIN heap |-> k]
  /\ \E n \in 0..MaxExpenses : splitwiseExpenses \in [1..n -> ExpenseRows]
  /\ localCategories \in CategoryLists
  /\ merged = <<>>
  /\ mergePc = "locals"
  /\ mergeK = 1
  /\ mergedTotals = <<>>

NextMerge ==
  \/ AddLocal
  \/ LocalsDone
  \/ AddToExisting
  \/ AddVirtual
  \/ SortAndReturn

SpecMerge == InitMerge /\ [][NextMerge]_vars

\* the sum of field over the objects that refs refer to
RECURSIVE SumField(_, _)
SumField(refs, field) ==
  IF refs = <<>> THEN 0
  ELSE heap[Head(refs)][field] + SumField(Tail(refs), field)

RECURSIVE SumOwedShare(_)
SumOwedShare(expenses) ==
  IF expenses = <<>> THEN 0
  ELSE Head(expenses).user_owed_share + SumOwedShare(Tail(expenses))

DistinctCategoryIds ==
  \A j, k \in DOMAIN localTotals :
    j # k => heap[localTotals[j]].category_id # heap[localTotals[k]].category_id

\* what the returned array holds, for local totals of distinct category_id
MergedIsConserved ==
  (mergePc = "returned" /\ DistinctCategoryIds) =>
    /\ SumField(mergedTotals, "total_amount")
         = SumField(localTotals, "total_amount") + SumOwedShare(splitwiseExpenses)
    /\ SumField(mergedTotals, "expense_count")
         = SumField(localTotals, "expense_count") + Len(splitwiseExpenses)
    /\ \A j, k \in DOMAIN mergedTotals :
         j # k => heap[mergedTotals[j]].bucket_key # heap[mergedTotals[k]].bucket_key
    /\ \A k \in 1..(Len(mergedTotals) - 1) :
         heap[mergedTotals[k]].total_amount >= heap[mergedTotals[k + 1]].total_amount

\* a step leaves the caller's array and the objects in it as they are
LocalTotalsUntouched ==
  /\ localTotals' = localTotals
  /\ \A k \in DOMAIN localTotals : heap'[localTotals[k]] = heap[localTotals[k]]

\* C30: for local totals of pairwise distinct category_id the returned array
\* conserves the amounts (local total_amount plus every user_owed_share) and
\* the counts (local expense_count plus one per Splitwise expense), holds
\* each bucket_key once and is sorted by total_amount, largest first; and no
\* step of the merge changes the localTotals array or an object in it.
C30_MergeConservesTotals ==
  []MergedIsConserved /\ [][LocalTotalsUntouched]_vars

\* C30 witness: a merge of two local totals has returned; one expense went
\* to a local category, two to one virtual category, and the sort moved the
\* virtual category to the front.
C30_Witness ==
  /\ mergePc = "returned"
  /\ DistinctCategoryIds
  /\ Len(localTotals) = 2
  /\ Len(splitwiseExpenses) = 3
  /\ Len(mergedTotals) = 3
  /\ \E k \in DOMAIN merged : heap[merged[k][2]].hasSplitwise /\ k <= 2
  /\ SplitwiseCount(heap[mergedTotals[1]]) = 2
  /\ "mapping" \in DOMAIN heap[mergedTotals[1]]
  /\ heap[mergedTotals[1]].mapping.is_virtual
  /\ mergedTotals # [k \in DOMAIN merged |-> merged[k][2]]

====
